---------------------------- MODULE Spec2Model ----------------------------
(***************************************************************************)
(* A model of the anondrop secret-sharing server: the file store           *)
(* (internal/storage/file), the secret handlers (internal/api/handlers),   *)
(* the periodic cleanup goroutine (cmd/server/main.go) and the Redis rate  *)
(* limiter (internal/storage/redis).                                       *)
(*                                                                         *)
(* Time is counted in milliseconds.  Strings whose content matters         *)
(* (custom names, the client's ciphertext parts) are sequences of          *)
(* one-character strings.  A nil pointer (to a time.Time or an int) is    *)
(* the empty set and a non-nil pointer the singleton of its value.         *)
(***************************************************************************)
EXTENDS Integers, Sequences, FiniteSets, TLC

(***************************************************************************)
(* Units of time.Duration, in milliseconds.                                *)
(***************************************************************************)
Second == 1000
Minute == 60 * Second
Hour == 60 * Minute

(***************************************************************************)
(* Bounds of the model.                                                    *)
(***************************************************************************)
\* number of uuids that uuid.New can hand out in one run
MaxIds == 2
\* the clock advances MaxTicks times, by TimeStep each time
MaxTicks == 2
TimeStep == 10 * Minute
MaxTime == MaxTicks * TimeStep

Ids == 1..MaxIds
Workers == {"w1", "w2"}

(***************************************************************************)
(* Strings.                                                                *)
(***************************************************************************)
Dot == "."
AlnumChars == {"a", "x", "y", "z"}

\* models.CustomNameRegex "^[a-zA-Z0-9]+$"
CustomNameRegexMatch(name) ==
    /\ Len(name) >= 1
    /\ \A i \in 1..Len(name) : name[i] \in AlnumChars

\* models.ValidateCustomName: TRUE when it returns no error
ValidateCustomName(name) ==
    name = <<>> \/ CustomNameRegexMatch(name)

\* strings.Split(s, "."): cur is the piece being read, acc the pieces read
RECURSIVE SplitAcc(_, _, _)
SplitAcc(s, cur, acc) ==
    IF s = <<>> THEN Append(acc, cur)
    ELSE IF Head(s) = Dot THEN SplitAcc(Tail(s), <<>>, Append(acc, cur))
    ELSE SplitAcc(Tail(s), Append(cur, Head(s)), acc)

StringsSplit(s) == SplitAcc(s, <<>>, <<>>)

\* fmt.Sprintf("%s.%s.%s", Encrypted, Salt, IV)
CombinedData(content) ==
    content.Encrypted \o <<Dot>> \o content.Salt \o <<Dot>> \o content.IV

(***************************************************************************)
(* The encryption envelope (internal/encryption).  A byte is a character   *)
(* of a text, a byte that rand.Reader produced, or a byte that AES-GCM     *)
(* produced.  PBKDF2 and AES-256-GCM are ideal: two keys are equal exactly *)
(* when they were derived from the same combined password and salt, the    *)
(* i-th byte of the counter mode gives back the byte under it exactly to   *)
(* the key and nonce that made it, and a tag verifies exactly under the    *)
(* key and nonce that made it, over the text that it was made for.         *)
(***************************************************************************)
ServerKey == <<"k", "q">>
Salts == {"salt1"}
Nonces == {"nonce1"}

saltSize == 16
\* gcm.NonceSize() and the length of the tag of cipher.NewGCM
gcmNonceSize == 12
gcmTagSize == 16

\* no key: the place of the key in a byte that no cipher made
NoKey == [material |-> <<>>, salt |-> <<>>]

\* the byte of the character c
TextByte(c) ==
    [kind |-> "text", v |-> c, i |-> 0, key |-> NoKey, nonce |-> <<>>, of |-> <<>>]

\* the i-th byte of the draw named id from rand.Reader
RandomByte(id, i) ==
    [kind |-> "rand", v |-> id, i |-> i, key |-> NoKey, nonce |-> <<>>, of |-> <<>>]

\* []byte(s)
Bytes(s) == [i \in 1..Len(s) |-> TextByte(s[i])]

\* string(b): a byte that is no character of a text reads as '#'
String(b) == [i \in 1..Len(b) |-> IF b[i].kind = "text" THEN b[i].v ELSE "#"]

\* io.ReadFull(rand.Reader, make([]byte, n))
RandomBytes(id, n) == [i \in 1..n |-> RandomByte(id, i)]

\* Encryptor.deriveKey: pbkdf2.Key(append([]byte(password), serverKey...), salt)
DeriveKey(serverKey, password, salt) ==
    [material |-> password \o serverKey, salt |-> salt]

\* the tag of gcm.Seal
GcmTag(key, nonce, data) ==
    [j \in 1..gcmTagSize |->
        [kind |-> "tag", v |-> "", i |-> j, key |-> key, nonce |-> nonce,
         of |-> data]]

\* gcm.Seal(nil, nonce, data, nil): the counter-mode bytes, then the tag
GcmSeal(key, nonce, data) ==
    [i \in 1..Len(data) |->
        [kind |-> "ctr", v |-> "", i |-> i, key |-> key, nonce |-> nonce,
         of |-> <<data[i]>>]]
    \o GcmTag(key, nonce, data)

DecryptError == [ok |-> FALSE, data |-> <<>>]

\* gcm.Open(nil, nonce, ciphertext, nil): [ok, data]
GcmOpen(key, nonce, ciphertext) ==
    IF Len(ciphertext) < gcmTagSize THEN DecryptError
    ELSE LET n == Len(ciphertext) - gcmTagSize
             tag == SubSeq(ciphertext, n + 1, Len(ciphertext))
             genuine == \A i \in 1..n : /\ ciphertext[i].kind = "ctr"
                                        /\ ciphertext[i].i = i
                                        /\ ciphertext[i].key = key
                                        /\ ciphertext[i].nonce = nonce
             data == [i \in 1..n |-> ciphertext[i].of[1]]
         IN  IF genuine /\ tag = GcmTag(key, nonce, data)
             THEN [ok |-> TRUE, data |-> data]
             ELSE DecryptError

\* Encryptor.Encrypt with the salt and nonce that rand.Reader produced:
\* salt, nonce, ciphertext
Encrypt(serverKey, data, password, salt, nonce) ==
    LET saltBytes == RandomBytes(salt, saltSize)
        nonceBytes == RandomBytes(nonce, gcmNonceSize)
        key == DeriveKey(serverKey, password, saltBytes)
    IN  saltBytes \o nonceBytes \o GcmSeal(key, nonceBytes, data)

\* a slip in the length check: an envelope with no byte of text refused
DecryptNonEmpty(serverKey, encrypted, password) ==
    IF Len(encrypted) <= saltSize + gcmNonceSize + gcmTagSize THEN DecryptError
    ELSE GcmOpen(DeriveKey(serverKey, password, SubSeq(encrypted, 1, saltSize)),
                 SubSeq(encrypted, saltSize + 1, saltSize + gcmNonceSize),
                 SubSeq(encrypted, saltSize + gcmNonceSize + 1, Len(encrypted)))

\* Encryptor.Decrypt: [ok, data]
Decrypt(serverKey, encrypted, password) ==
    IF Len(encrypted) < saltSize + 12 THEN DecryptError
    ELSE LET salt == SubSeq(encrypted, 1, saltSize)
             key == DeriveKey(serverKey, password, salt)
         IN  IF Len(encrypted) < saltSize + gcmNonceSize THEN DecryptError
             ELSE GcmOpen(key,
                          SubSeq(encrypted, saltSize + 1, saltSize + gcmNonceSize),
                          SubSeq(encrypted, saltSize + gcmNonceSize + 1,
                                 Len(encrypted)))

\* The bytes of Secret.EncryptedData: either the base64 text of an envelope
\* (encryption.EncodeToString) or the combined string itself.  The base64
\* text is kept as the call of Encrypt that made its bytes.
Sealing(serverKey, text, password, salt, nonce) ==
    [serverKey |-> serverKey, text |-> text, password |-> password,
     salt |-> salt, nonce |-> nonce]
SealedBytes(call) ==
    Encrypt(call.serverKey, Bytes(call.text), call.password, call.salt, call.nonce)

NoEnvelope == Sealing(<<>>, <<>>, <<>>, "", "")
Base64Data(envelope) == [base64 |-> TRUE, envelope |-> envelope, text |-> <<>>]
PlainData(text) == [base64 |-> FALSE, envelope |-> NoEnvelope, text |-> text]

\* encryption.DecodeString(string(data)): [ok, bytes].  The combined
\* string always holds a '.', which is no base64 character.
DecodeString(data) ==
    IF data.base64 THEN [ok |-> TRUE, bytes |-> SealedBytes(data.envelope)]
    ELSE [ok |-> FALSE, bytes |-> <<>>]

(***************************************************************************)
(* models.Secret.  CreatedAt is left out: no operation reads it.           *)
(***************************************************************************)
NoContent == [Encrypted |-> <<>>, Salt |-> <<>>, IV |-> <<>>]

Secret(id, name, expiresAt, burn, data) ==
    [ID |-> id, CustomName |-> name, ExpiresAt |-> expiresAt,
     IsBurnAfterReading |-> burn, EncryptedData |-> data]

\* a nil *models.Secret
NoSecret == Secret(0, <<>>, {}, FALSE, PlainData(<<>>))

\* a slip in the comparison: expired already at the expiry time itself
IsExpiredAtDue(s, t) == \E e \in s.ExpiresAt : t >= e

\* a slip in the comparison: Before in the place of After
IsExpiredBefore(s, t) == \E e \in s.ExpiresAt : t < e

\* a slip in the nil check: a secret without an expiry counts as expired
IsExpiredOrNil(s, t) == s.ExpiresAt = {} \/ \E e \in s.ExpiresAt : t > e

\* Secret.IsExpired at time t: time.Now().After(ExpiresAt)
IsExpired(s, t) == \E e \in s.ExpiresAt : t > e


(***************************************************************************)
(* The pure parts of the handlers.                                         *)
(***************************************************************************)
\* allowedExpiryTimes of CreateSecret
AllowedExpiryTimes == {10 * Minute, 30 * Minute, 1 * Hour, 24 * Hour, 7 * 24 * Hour}

\* a slip in the comparison: the two ends of the tolerance left out
MatchingDurationsInside(duration) ==
    {d \in AllowedExpiryTimes : duration > d - Second /\ duration < d + Second}

\* the allowed durations that a requested duration matches within a second
MatchingDurations(duration) ==
    {d \in AllowedExpiryTimes : duration >= d - Second /\ duration <= d + Second}

\* a slip in the burn branch: the requested expiry stays on the record
ExpiryOutcomesKeepRequested(t, requested, burn) ==
    IF burn THEN {[ok |-> TRUE, ExpiresAt |-> requested]}
    ELSE IF requested = {} THEN {[ok |-> TRUE, ExpiresAt |-> {t + 10 * Minute}]}
    ELSE LET duration == (CHOOSE e \in requested : TRUE) - t
         IN  IF MatchingDurations(duration) = {}
             THEN {[ok |-> FALSE, ExpiresAt |-> requested]}
             ELSE {[ok |-> TRUE, ExpiresAt |-> {t + d}] :
                      d \in MatchingDurations(duration)}

\* CreateSecret's handling of the expiry, at time t: the set of possible
\* outcomes [ok, ExpiresAt].  The loop ranges over a Go map, whose order is
\* not fixed, and stops at the first allowed duration that matches: each
\* matching duration is a possible outcome.
ExpiryOutcomes(t, requested, burn) ==
    IF burn THEN {[ok |-> TRUE, ExpiresAt |-> {}]}
    ELSE IF requested = {} THEN {[ok |-> TRUE, ExpiresAt |-> {t + 10 * Minute}]}
    ELSE LET duration == (CHOOSE e \in requested : TRUE) - t
         IN  IF MatchingDurations(duration) = {}
             THEN {[ok |-> FALSE, ExpiresAt |-> requested]}
             ELSE {[ok |-> TRUE, ExpiresAt |-> {t + d}] :
                      d \in MatchingDurations(duration)}

\* CreateSecret's payload: the combined string, wrapped in the server's
\* envelope and base64-encoded when server-side encryption is on
BuildEncryptedData(sse, content, salt, nonce) ==
    IF sse
    THEN Base64Data(Sealing(ServerKey, CombinedData(content), <<>>, salt, nonce))
    ELSE PlainData(CombinedData(content))

\* string(secret.EncryptedData): base64 text holds no '.'
RawString(data) == IF data.base64 THEN <<"B">> ELSE data.text

\* decryptAndPrepareSecret: [ok, content]
DecryptAndPrepareSecret(sse, secret) ==
    LET decoded == DecodeString(secret.EncryptedData)
        opened == Decrypt(ServerKey, decoded.bytes, <<>>)
        readable == (~sse) \/ (decoded.ok /\ opened.ok)
        combinedData == IF sse THEN String(opened.data)
                        ELSE RawString(secret.EncryptedData)
        parts == StringsSplit(combinedData)
    IN  IF readable /\ Len(parts) = 3
        THEN [ok |-> TRUE,
              content |-> [Encrypted |-> parts[1], Salt |-> parts[2],
                           IV |-> parts[3]]]
        ELSE [ok |-> FALSE, content |-> NoContent]

(***************************************************************************)
(* HTTP status codes and responses.                                        *)
(***************************************************************************)
StatusOK == 200
StatusBadRequest == 400
StatusNotFound == 404
StatusConflict == 409
StatusGone == 410
StatusInternalServerError == 500

NoResponse ==
    [status |-> 0, id |-> 0, content |-> NoContent, ExpiresAt |-> {},
     IsBurnAfterReading |-> FALSE]

\* c.JSON(status, gin.H{"error": ...})
ErrorResponse(status) == [NoResponse EXCEPT !.status = status]

\* c.JSON(http.StatusOK, APISecretResponse{ID: ...})
CreatedResponse(id) == [NoResponse EXCEPT !.status = StatusOK, !.id = id]

\* c.JSON(http.StatusOK, response) with an APISecretContentResponse
ContentResponse(secret, content) ==
    [status |-> StatusOK, id |-> 0, content |-> content,
     ExpiresAt |-> secret.ExpiresAt,
     IsBurnAfterReading |-> secret.IsBurnAfterReading]

(***************************************************************************)
(* The inputs of the requests.                                             *)
(***************************************************************************)
GoodContent == [Encrypted |-> <<"x">>, Salt |-> <<"y">>, IV |-> <<"z">>]
DottedContent == [Encrypted |-> <<"x", Dot, "x">>, Salt |-> <<"y">>, IV |-> <<"z">>]
EmptyContent == [Encrypted |-> <<>>, Salt |-> <<"y">>, IV |-> <<"z">>]
ContentInputs == {GoodContent, DottedContent, EmptyContent}
\* the contents that the clients of the full server send
PlainContentInputs == {GoodContent, EmptyContent}

NameInputs == {<<>>, <<"a">>, <<"-">>}
\* security.max_custom_name_length of the shipped configuration
MaxCustomNameLength == 32
\* an alphanumeric name one character longer than the configured maximum
LongName == [i \in 1..(MaxCustomNameLength + 1) |-> "a"]
LongNameInputs == NameInputs \cup {LongName}
\* the ids a read can ask for: 0 stands for a string that is no uuid
IdInputs == Ids \cup {0}
MaxViewsInputs == {{}, {1}, {2}}
CaptchaOutcomes == {"ok", "fail", "error"}
\* the expiresAt of a create request sent at time t
ExpiryInputs(t) == {{}, {t + 10 * Minute - 500}, {t + 15 * Minute}}
\* the same around every allowed duration, at and next to the two ends of the
\* tolerance
ExpiryOffsets == {0 - Second - 1, 0 - Second, 0 - 500, 0, 500, Second, Second + 1}
WideExpiryInputs(t) ==
    {{}, {t}, {t + 15 * Minute}}
        \cup {{t + d + o} : d \in AllowedExpiryTimes, o \in ExpiryOffsets}

\* binding:"required" on the three parts of the content
BindOK(content) ==
    content.Encrypted # <<>> /\ content.Salt # <<>> /\ content.IV # <<>>


(***************************************************************************)
(* State.                                                                  *)
(***************************************************************************)
VARIABLES
    cfg,        \* config.Security: EnableCaptcha, ServerSideEncryption
    now,        \* the clock, in milliseconds
    files,      \* the storage directory: the secrets that have a file
    usedIds,    \* the uuids handed out so far
    wk,         \* wk[w]: the request that worker w is serving and where it is
    sweep,      \* the cleanup goroutine inside CleanExpired
    cleanupStats, \* FileStore.cleanupStats
    sent,       \* history: sent[id] is the content the client sent for secret id
    redis,      \* redis[key]: the counter stored at key, count 0 when absent
    rl,         \* rl[c]: the CheckRateLimit call of client c and where it is
    limits,     \* requestsPerHour and requestsPerMinute of the calls
    calls,      \* the calls that can still be made
    hits,       \* history: hits[ip, route, window] counts the requests admitted
                \* on the pair in the present lifetime of its window's counter
    crypto,     \* a caller of Encrypt and Decrypt, outside the server
    life,       \* main and the cleanup goroutine between start and exit
    mu          \* FileStore.mu and the goroutines that call the store


\* history: the expiry that a create request asked for, once the handler
\* has come to the expiry; at is the handler's time.Now()
NotAsked ==
    [reached |-> FALSE, at |-> 0, ExpiresAt |-> {}, MaxViews |-> {}, burn |-> FALSE]
Asked(t, requested, maxViews, burn) ==
    [reached |-> TRUE, at |-> t, ExpiresAt |-> requested, MaxViews |-> maxViews,
     burn |-> burn]

\* reqId and reqName are the id and the name of the request.  captcha is
\* history: the answer of the captcha verifier to the request, "none" when
\* the handler did not call it.
IdleWorker ==
    [pc |-> "idle", op |-> "none", reqId |-> 0, reqName |-> <<>>,
     secret |-> NoSecret, resp |-> NoResponse, asked |-> NotAsked,
     captcha |-> "none", deleteErr |-> FALSE]

\* atStart and startedAt are history: the directory and the time at ReadDir;
\* removed and failed are history: the calls of os.Remove in this run that
\* removed a file, and those that returned an error
IdleSweep ==
    [pc |-> "idle", list |-> {}, deletedCount |-> 0, secret |-> NoSecret,
     atStart |-> {}, startedAt |-> 0, removed |-> 0, failed |-> 0]

\* security.enable_captcha and security.server_side_encryption of config.yaml
ShippedConfig == [EnableCaptcha |-> TRUE, ServerSideEncryption |-> TRUE]
Configs == [EnableCaptcha : BOOLEAN, ServerSideEncryption : BOOLEAN]

StoreInit(configs) ==
    /\ cfg \in configs
    /\ now = 0
    /\ files = {}
    /\ usedIds = {}
    /\ wk = [w \in Workers |-> IdleWorker]
    /\ sweep = IdleSweep
    /\ cleanupStats = [lastRun |-> {}, secretsCleaned |-> 0, errors |-> 0]
    /\ sent = [id \in Ids |-> NoContent]

(***************************************************************************)
(* The file store's critical sections.                                     *)
(***************************************************************************)
\* the secrets named name, in directory order (os.ReadDir sorts by file name)
Named(dir, name) == {s \in dir : s.CustomName = name}

\* a slip in the scan: the name of the file's secret is not compared
IsCustomNameTakenByAny(dir, name) ==
    IF name = <<>> THEN FALSE ELSE dir # {}

\* FileStore.IsCustomNameTaken
IsCustomNameTaken(dir, name) ==
    IF name = <<>> THEN FALSE ELSE Named(dir, name) # {}

\* a slip in the scan: the first file is returned, its name not compared
GetByCustomNameOfFirst(dir, name) ==
    IF dir = {} THEN NoSecret
    ELSE CHOOSE s \in dir : \A o \in dir : s.ID <= o.ID

\* FileStore.GetByCustomName: the first match, or nil
GetByCustomName(dir, name) ==
    IF Named(dir, name) = {} THEN NoSecret
    ELSE CHOOSE s \in Named(dir, name) : \A o \in Named(dir, name) : s.ID <= o.ID

\* FileStore.Get
Get(dir, id) ==
    IF \E s \in dir : s.ID = id THEN CHOOSE s \in dir : s.ID = id ELSE NoSecret

\* os.Remove of the file of id: the directory after it and its error
OsRemove(dir, id) ==
    [dir |-> {s \in dir : s.ID # id},
     err |-> IF \E s \in dir : s.ID = id THEN "none" ELSE "not_exist"]

\* a slip in Delete: the file stays
DeleteNothing(dir, id) == dir

\* FileStore.Delete: removing a missing file is no error
Delete(dir, id) == OsRemove(dir, id).dir

\* a slip in Delete: the error of os.Remove returned without os.IsNotExist
DeleteErrorOfRemove(dir, id) == OsRemove(dir, id).err # "none"

\* FileStore.Delete: TRUE when it returns an error.  The errors of os.Remove
\* other than the missing file (permissions, the disk) are left out.
DeleteError(dir, id) == OsRemove(dir, id).err \notin {"none", "not_exist"}

\* the write of FileStore.Store: os.WriteFile replaces the file of that id
WriteFile(dir, secret) == Delete(dir, secret.ID) \cup {secret}

Respond(w, response) ==
    wk' = [wk EXCEPT ![w].pc = "done", ![w].resp = response]

(***************************************************************************)
(* CreateSecret, up to the call of FileStore.Store.                        *)
(***************************************************************************)
\* the verdict of the steps before the secret is built: 0 when they pass
CreateRejection(content, name, captcha) ==
    IF ~BindOK(content) THEN StatusBadRequest
    ELSE IF ~ValidateCustomName(name) THEN StatusBadRequest
    ELSE IF cfg.EnableCaptcha /\ captcha = "error" THEN StatusInternalServerError
    ELSE IF cfg.EnableCaptcha /\ captcha = "fail" THEN StatusBadRequest
    ELSE 0

\* the answer that CreateSecret got from the captcha verifier, "none" when
\* it returned before the call or the captcha is switched off
CreateCaptcha(content, name, captcha) ==
    IF BindOK(content) /\ ValidateCustomName(name) /\ cfg.EnableCaptcha
    THEN captcha ELSE "none"

\* a slip in the ids: an id handed out before can come again
NewIdsRepeating(used) == Ids

\* uuid.New() of NewSecret: an id that was not handed out before
NewIds(used) == Ids \ used

CreateSecretOf(w, contents, expiries, names) ==
    /\ wk[w].pc = "idle"
    /\ \E content \in contents, name \in names,
          requested \in expiries, maxViews \in MaxViewsInputs,
          captcha \in CaptchaOutcomes :
         LET rejection == CreateRejection(content, name, captcha)
             burn == maxViews = {1}
         IN  IF rejection # 0
             THEN wk' = [wk EXCEPT ![w] = [IdleWorker EXCEPT
                             !.pc = "done", !.op = "create", !.reqName = name,
                             !.captcha = CreateCaptcha(content, name, captcha),
                             !.resp = ErrorResponse(rejection)]]
                  /\ UNCHANGED <<usedIds, sent>>
             ELSE \E outcome \in ExpiryOutcomes(now, requested, burn) :
                    IF ~outcome.ok
                    THEN wk' = [wk EXCEPT ![w] = [IdleWorker EXCEPT
                                    !.pc = "done", !.op = "create",
                                    !.reqName = name,
                                    !.captcha = CreateCaptcha(content, name, captcha),
                                    !.asked = Asked(now, requested, maxViews, burn),
                                    !.resp = ErrorResponse(StatusBadRequest)]]
                         /\ UNCHANGED <<usedIds, sent>>
                    ELSE \E id \in NewIds(usedIds), salt \in Salts, nonce \in Nonces :
                           /\ usedIds' = usedIds \cup {id}
                           /\ sent' = [sent EXCEPT ![id] = content]
                           /\ wk' = [wk EXCEPT ![w] = [IdleWorker EXCEPT
                                  !.pc = IF name # <<>> THEN "store_check"
                                         ELSE "store_write",
                                  !.op = "create", !.reqName = name,
                                  !.captcha = CreateCaptcha(content, name, captcha),
                                  !.asked = Asked(now, requested, maxViews, burn),
                                  !.secret = Secret(id, name, outcome.ExpiresAt, burn,
                                      BuildEncryptedData(cfg.ServerSideEncryption,
                                                         content, salt, nonce))]]
    /\ UNCHANGED <<cfg, now, files, sweep, cleanupStats>>

\* CreateSecret with the names that the clients of most specifications send
CreateSecret(w, contents, expiries) ==
    CreateSecretOf(w, contents, expiries, NameInputs)

(***************************************************************************)
(* FileStore.Store: the name check under the read lock, the lookup of the  *)
(* holder under the read lock, the write under the write lock.             *)
(***************************************************************************)
StoreCheckName(w) ==
    /\ wk[w].pc = "store_check"
    /\ wk' = [wk EXCEPT ![w].pc =
                IF IsCustomNameTaken(files, wk[w].secret.CustomName)
                THEN "store_existing" ELSE "store_write"]
    /\ UNCHANGED <<cfg, now, files, usedIds, sweep, cleanupStats, sent>>

\* existingSecret.ID on a nil existingSecret panics; gin.Recovery answers 500
StoreGetExisting(w) ==
    /\ wk[w].pc = "store_existing"
    /\ LET existingSecret == GetByCustomName(files, wk[w].secret.CustomName)
       IN  IF existingSecret = NoSecret
           THEN Respond(w, ErrorResponse(StatusInternalServerError))
           ELSE IF existingSecret.ID # wk[w].secret.ID
           THEN Respond(w, ErrorResponse(StatusConflict))
           ELSE wk' = [wk EXCEPT ![w].pc = "store_write"]
    /\ UNCHANGED <<cfg, now, files, usedIds, sweep, cleanupStats, sent>>

StoreWrite(w) ==
    /\ wk[w].pc = "store_write"
    /\ files' = WriteFile(files, wk[w].secret)
    /\ Respond(w, CreatedResponse(wk[w].secret.ID))
    /\ UNCHANGED <<cfg, now, usedIds, sweep, cleanupStats, sent>>


(***************************************************************************)
(* GetSecret and GetSecretByName.  Both verify the captcha whatever        *)
(* EnableCaptcha says.                                                     *)
(***************************************************************************)
\* uuidPattern.MatchString: the model's uuids are the ids 1..MaxIds, and
\* the pattern has the small letters a-f only
UuidPatternMatch(id) == id \in Ids

\* the uuid i spelled with capital letters is the id -i of a request
UpperIds == {-i : i \in Ids}
CaseIdInputs == IdInputs \cup UpperIds

\* strings.ToLower of the id of a request
ToLower(id) == IF id \in UpperIds THEN -id ELSE id

\* a slip in the checks: a verifier error is taken as a pass
ReadRejectionFailOpen(formatOK, captcha) ==
    IF ~formatOK THEN StatusBadRequest
    ELSE IF captcha = "fail" THEN StatusBadRequest
    ELSE 0

ReadRejection(formatOK, captcha) ==
    IF ~formatOK THEN StatusBadRequest
    ELSE IF captcha = "error" THEN StatusInternalServerError
    ELSE IF captcha = "fail" THEN StatusBadRequest
    ELSE 0

\* the answer that a read handler got from the captcha verifier
ReadCaptcha(formatOK, captcha) == IF formatOK THEN captcha ELSE "none"

\* the handler after the lookup returned found
AfterLookup(w, op, id, name, found, captcha) ==
    wk' = [wk EXCEPT ![w] = [IdleWorker EXCEPT
             !.op = op, !.reqId = id, !.reqName = name, !.secret = found,
             !.captcha = captcha,
             !.pc = IF found = NoSecret THEN "done" ELSE "check",
             !.resp = IF found = NoSecret THEN ErrorResponse(StatusNotFound)
                      ELSE NoResponse]]

\* GetSecret up to the return of fileStore.Get, which reads under the read
\* lock; the steps before it touch nothing shared
\* the pattern is matched against strings.ToLower(id), and fileStore.Get is
\* called with id as the request spelled it; the file names are the uuids
\* in small letters
GetSecretOf(w, ids) ==
    /\ wk[w].pc = "idle"
    /\ \E id \in ids, captcha \in CaptchaOutcomes :
         LET formatOK == UuidPatternMatch(ToLower(id))
             rejection == ReadRejection(formatOK, captcha)
         IN  IF rejection # 0
             THEN wk' = [wk EXCEPT ![w] = [IdleWorker EXCEPT
                           !.pc = "done", !.op = "get", !.reqId = id,
                           !.captcha = ReadCaptcha(formatOK, captcha),
                           !.resp = ErrorResponse(rejection)]]
             ELSE AfterLookup(w, "get", id, <<>>, Get(files, id), captcha)
    /\ UNCHANGED <<cfg, now, files, usedIds, sweep, cleanupStats, sent>>

GetSecret(w) == GetSecretOf(w, IdInputs)

\* GetSecretByName up to the return of fileStore.GetByCustomName
GetSecretByName(w) ==
    /\ wk[w].pc = "idle"
    /\ \E name \in NameInputs \ {<<>>}, captcha \in CaptchaOutcomes :
         LET rejection == ReadRejection(CustomNameRegexMatch(name), captcha)
         IN  IF rejection # 0
             THEN wk' = [wk EXCEPT ![w] = [IdleWorker EXCEPT
                           !.pc = "done", !.op = "get_by_name", !.reqName = name,
                           !.captcha = ReadCaptcha(CustomNameRegexMatch(name), captcha),
                           !.resp = ErrorResponse(rejection)]]
             ELSE AfterLookup(w, "get_by_name", 0, name,
                              GetByCustomName(files, name), captcha)
    /\ UNCHANGED <<cfg, now, files, usedIds, sweep, cleanupStats, sent>>

\* secret.IsExpired(), then decryptAndPrepareSecret
\* a slip in the order: the burn-after-reading record is deleted before the
\* error of decryptAndPrepareSecret is looked at
AfterPrepareDeleteFirst(ok, burn) == IF burn THEN "delete_burn" ELSE "done"

\* where the handler goes after decryptAndPrepareSecret: it answers 400 on
\* an error, deletes a burn-after-reading record, or answers 200
AfterPrepare(ok, burn) ==
    IF ~ok THEN "done" ELSE IF burn THEN "delete_burn" ELSE "done"

CheckAndPrepare(w) ==
    /\ wk[w].pc = "check"
    /\ LET secret == wk[w].secret
           prepared == DecryptAndPrepareSecret(cfg.ServerSideEncryption, secret)
       IN  IF IsExpired(secret, now)
           THEN wk' = [wk EXCEPT ![w].pc = "delete_expired"]
           ELSE wk' = [wk EXCEPT
                         ![w].pc = AfterPrepare(prepared.ok,
                                                secret.IsBurnAfterReading),
                         ![w].resp = IF prepared.ok
                                     THEN ContentResponse(secret, prepared.content)
                                     ELSE ErrorResponse(StatusBadRequest)]
    /\ UNCHANGED <<cfg, now, files, usedIds, sweep, cleanupStats, sent>>

\* fileStore.Delete of the expired secret, then 410
DeleteExpired(w) ==
    /\ wk[w].pc = "delete_expired"
    /\ files' = Delete(files, wk[w].secret.ID)
    /\ wk' = [wk EXCEPT ![w].pc = "done",
                        ![w].resp = ErrorResponse(StatusGone),
                        ![w].deleteErr = DeleteError(files, wk[w].secret.ID)]
    /\ UNCHANGED <<cfg, now, usedIds, sweep, cleanupStats, sent>>

\* fileStore.Delete of the burn-after-reading secret, then the response
DeleteBurn(w) ==
    /\ wk[w].pc = "delete_burn"
    /\ files' = Delete(files, wk[w].secret.ID)
    /\ wk' = [wk EXCEPT ![w].pc = "done",
                        ![w].deleteErr = DeleteError(files, wk[w].secret.ID)]
    /\ UNCHANGED <<cfg, now, usedIds, sweep, cleanupStats, sent>>

\* fileStore.Delete of the burn-after-reading secret when os.Remove fails
\* with an error other than the missing file (permissions, the disk): the
\* file stays, Delete returns the error, the handler logs it and goes on to
\* the response
DeleteBurnFails(w) ==
    /\ wk[w].pc = "delete_burn"
    /\ wk' = [wk EXCEPT ![w].pc = "done", ![w].deleteErr = TRUE]
    /\ UNCHANGED <<cfg, now, files, usedIds, sweep, cleanupStats, sent>>

\* the response is written and the worker serves the next request
Finish(w) ==
    /\ wk[w].pc = "done"
    /\ wk' = [wk EXCEPT ![w] = IdleWorker]
    /\ UNCHANGED <<cfg, now, files, usedIds, sweep, cleanupStats, sent>>

(***************************************************************************)
(* FileStore.CleanExpired, run by the cleanup goroutine on each tick of    *)
(* its ticker.  It takes the lock only to write the statistics: the scan   *)
(* reads and removes the files one at a time, other operations in between. *)
(***************************************************************************)
\* ioutil.ReadDir
SweepStart ==
    /\ sweep.pc = "idle"
    /\ sweep' = [pc |-> "read", list |-> {s.ID : s \in files},
                 deletedCount |-> 0, secret |-> NoSecret,
                 atStart |-> files, startedAt |-> now,
                 removed |-> 0, failed |-> 0]
    /\ UNCHANGED <<cfg, now, files, usedIds, wk, cleanupStats, sent>>

NextFile == CHOOSE id \in sweep.list : \A o \in sweep.list : id <= o

\* a slip in the loop: a failure on one file ends the run
RestAfterAbort(list, id, failure) == IF failure THEN {} ELSE list \ {id}

\* the files that the loop of CleanExpired still has to visit after the file
\* of id: `continue` after a failure, the next iteration otherwise
RestAfter(list, id, failure) == list \ {id}

\* ioutil.ReadFile of the next file and secret.IsExpired(): a file that is
\* gone or a secret that has not expired is passed over
SweepRead ==
    /\ sweep.pc = "read"
    /\ sweep.list # {}
    /\ LET secret == Get(files, NextFile)
       IN  IF secret # NoSecret /\ IsExpired(secret, now)
           THEN sweep' = [sweep EXCEPT !.pc = "remove", !.secret = secret]
           ELSE sweep' = [sweep EXCEPT
                            !.list = RestAfter(sweep.list, NextFile,
                                               secret = NoSecret)]
    /\ UNCHANGED <<cfg, now, files, usedIds, wk, cleanupStats, sent>>

\* os.Remove: fails, and is not counted, when the file is gone already
SweepRemove ==
    /\ sweep.pc = "remove"
    /\ files' = Delete(files, sweep.secret.ID)
    /\ sweep' = [sweep EXCEPT
                   !.pc = "read", !.secret = NoSecret,
                   !.list = RestAfter(sweep.list, sweep.secret.ID,
                                      OsRemove(files, sweep.secret.ID).err # "none"),
                   !.deletedCount = IF Get(files, sweep.secret.ID) # NoSecret
                                    THEN sweep.deletedCount + 1
                                    ELSE sweep.deletedCount,
                   !.removed = IF files' # files THEN @ + 1 ELSE @,
                   !.failed = IF OsRemove(files, sweep.secret.ID).err # "none"
                              THEN @ + 1 ELSE @]
    /\ UNCHANGED <<cfg, now, usedIds, wk, cleanupStats, sent>>

\* a slip in the statistics: the count of the run added to the count so far
StatsRunningTotal(stats, deletedCount, t) ==
    [stats EXCEPT !.secretsCleaned = @ + deletedCount, !.lastRun = {t}]

\* the statistics that CleanExpired writes at its end, at time t
StatsAfterRun(stats, deletedCount, t) ==
    [stats EXCEPT !.secretsCleaned = deletedCount, !.lastRun = {t}]

\* the statistics, written under the lock
SweepFinish ==
    /\ sweep.pc = "read"
    /\ sweep.list = {}
    /\ cleanupStats' = StatsAfterRun(cleanupStats, sweep.deletedCount, now)
    /\ sweep' = IdleSweep
    /\ UNCHANGED <<cfg, now, files, usedIds, wk, sent>>

\* FileStore.GetCleanupStats
GetCleanupStats ==
    [LastRun |-> cleanupStats.lastRun,
     SecretsCleaned |-> cleanupStats.secretsCleaned,
     Errors |-> cleanupStats.errors]

(***************************************************************************)
(* The clock.                                                              *)
(***************************************************************************)
Tick ==
    /\ now + TimeStep <= MaxTime
    /\ now' = now + TimeStep
    /\ UNCHANGED <<cfg, files, usedIds, wk, sweep, cleanupStats, sent>>


(***************************************************************************)
(* The server: a worker serving one request after the other, the cleanup   *)
(* goroutine and the clock.                                                *)
(***************************************************************************)
(***************************************************************************)
(* RedisStore.CheckRateLimit.  A string is a sequence of pieces and        *)
(* Sprintf joins the pieces; the two GETs and the commands of the          *)
(* pipeline, which is no transaction, are steps of their own.              *)
(***************************************************************************)
HourLimit == 10
MinuteLimit == 5
SmallHourLimit == 3
SmallMinuteLimit == 2
MaxCalls == 3
MaxSeqCalls == 13

Clients == {"c1", "c2"}
Windows == {"hour", "minute"}
\* c.ClientIP(): an IPv4 and an IPv6 address
IPs == {<<"1">>, <<":", ":", "1">>}
\* c.FullPath()
Routes == {<<"/", "s">>, <<"/", "s", "/", ":", "i">>}
rateLimitPrefix == <<"rate_limit", ":">>

\* a slip in the key: the route left out
RateLimitKeyOfIP(ip, route, window) ==
    rateLimitPrefix \o ip \o <<":", window>>

\* fmt.Sprintf("%s%s:%s:hour", rateLimitPrefix, ip, route), and the same for
\* the minute
RateLimitKey(ip, route, window) ==
    rateLimitPrefix \o ip \o <<":">> \o route \o <<":", window>>

Keys == {RateLimitKey(ip, route, window) :
            ip \in IPs, route \in Routes, window \in Windows}
NoCounter == [count |-> 0, ttl |-> FALSE]

\* a slip in the comparison: the limit itself still admitted
OverLimit(count, limit) == count > limit

\* hourCount >= int64(requestsPerHour), and the same for the minute
AtLimit(count, limit) == count >= limit

StatusTooManyRequests == 429

\* what the middleware did with the request: nothing yet, c.Next() or the
\* abort with its status
NoVerdict == [next |-> FALSE, status |-> 0]
NextVerdict == [next |-> TRUE, status |-> 0]
AbortVerdict(status) == [next |-> FALSE, status |-> status]

\* minuteRefused is history: a call of the client was rejected on the minute;
\* err is the error that CheckRateLimit returned
IdleClient ==
    [pc |-> "idle", ip |-> <<>>, route |-> <<>>, hourCount |-> 0,
     minuteCount |-> 0, allowed |-> FALSE, minuteRefused |-> FALSE,
     err |-> FALSE, verdict |-> NoVerdict]

RateLimitInit(configured, budget) ==
    /\ redis = [k \in Keys |-> NoCounter]
    /\ rl = [c \in Clients |-> IdleClient]
    /\ limits = configured
    /\ calls = budget
    /\ hits = [p \in IPs \X Routes \X Windows |-> 0]

Incr(key) == [redis EXCEPT ![key].count = @ + 1]
Expire(key) == [redis EXCEPT ![key].ttl = redis[key].count > 0]
\* the admitted request lands on the counter of its pair
Hit(ip, route, window) == [hits EXCEPT ![<<ip, route, window>>] = @ + 1]

\* the call and its GET of the hour key
CheckRateLimit(c, ip, route) ==
    /\ rl[c].pc \in {"idle", "done", "answered"}
    /\ calls > 0
    /\ calls' = calls - 1
    /\ LET hourCount == redis[RateLimitKey(ip, route, "hour")].count
       IN  rl' = [rl EXCEPT ![c] = [IdleClient EXCEPT
                     !.ip = ip, !.route = route, !.hourCount = hourCount,
                     !.minuteRefused = rl[c].minuteRefused,
                     !.pc = IF AtLimit(hourCount, limits.requestsPerHour)
                            THEN "done" ELSE "get_minute"]]
    /\ UNCHANGED <<redis, limits, hits>>

\* a slip in the order: the pipeline runs whatever the minute count is
AfterMinuteCheckPipeline(refused) == "incr_hour"

\* where CheckRateLimit goes after the comparison of the minute count: it
\* returns false, or builds the pipeline
AfterMinuteCheck(refused) == IF refused THEN "done" ELSE "incr_hour"

\* the GET of the minute key
GetMinuteCount(c) ==
    /\ rl[c].pc = "get_minute"
    /\ LET minuteCount == redis[RateLimitKey(rl[c].ip, rl[c].route, "minute")].count
           refused == AtLimit(minuteCount, limits.requestsPerMinute)
       IN  rl' = [rl EXCEPT ![c].minuteCount = minuteCount,
                            ![c].minuteRefused = @ \/ refused,
                            ![c].pc = AfterMinuteCheck(refused)]
    /\ UNCHANGED <<redis, limits, calls, hits>>

IncrHour(c) ==
    /\ rl[c].pc = "incr_hour"
    /\ redis' = Incr(RateLimitKey(rl[c].ip, rl[c].route, "hour"))
    /\ hits' = Hit(rl[c].ip, rl[c].route, "hour")
    /\ rl' = [rl EXCEPT ![c].pc = IF rl[c].hourCount = 0 THEN "expire_hour"
                                  ELSE "incr_minute"]
    /\ UNCHANGED <<limits, calls>>

ExpireHour(c) ==
    /\ rl[c].pc = "expire_hour"
    /\ redis' = Expire(RateLimitKey(rl[c].ip, rl[c].route, "hour"))
    /\ rl' = [rl EXCEPT ![c].pc = "incr_minute"]
    /\ UNCHANGED <<limits, calls, hits>>

IncrMinute(c) ==
    /\ rl[c].pc = "incr_minute"
    /\ redis' = Incr(RateLimitKey(rl[c].ip, rl[c].route, "minute"))
    /\ hits' = Hit(rl[c].ip, rl[c].route, "minute")
    /\ rl' = [rl EXCEPT ![c].pc = IF rl[c].minuteCount = 0 THEN "expire_minute"
                                  ELSE "done",
                        ![c].allowed = rl[c].minuteCount # 0]
    /\ UNCHANGED <<limits, calls>>

ExpireMinute(c) ==
    /\ rl[c].pc = "expire_minute"
    /\ redis' = Expire(RateLimitKey(rl[c].ip, rl[c].route, "minute"))
    /\ rl' = [rl EXCEPT ![c].pc = "done", ![c].allowed = TRUE]
    /\ UNCHANGED <<limits, calls, hits>>

\* CheckRateLimit returns false and the error of the redis command
ReturnError(c, ip, route) ==
    rl' = [rl EXCEPT ![c] = [IdleClient EXCEPT
              !.ip = ip, !.route = route, !.hourCount = rl[c].hourCount,
              !.minuteCount = rl[c].minuteCount,
              !.minuteRefused = rl[c].minuteRefused,
              !.pc = "done", !.err = TRUE]]

\* the call whose GET of the hour key fails with an error other than
\* redis.Nil
GetHourError(c, ip, route) ==
    /\ rl[c].pc \in {"idle", "answered"}
    /\ calls > 0
    /\ calls' = calls - 1
    /\ rl' = [rl EXCEPT ![c] = [IdleClient EXCEPT
                  !.ip = ip, !.route = route,
                  !.minuteRefused = rl[c].minuteRefused,
                  !.pc = "done", !.err = TRUE]]
    /\ UNCHANGED <<redis, limits, hits>>

\* the GET of the minute key fails
GetMinuteError(c) ==
    /\ rl[c].pc = "get_minute"
    /\ ReturnError(c, rl[c].ip, rl[c].route)
    /\ UNCHANGED <<redis, limits, calls, hits>>

\* pipe.Exec fails: the commands that redis ran before the failure stay
ExecError(c) ==
    /\ rl[c].pc \in {"incr_hour", "expire_hour", "incr_minute", "expire_minute"}
    /\ ReturnError(c, rl[c].ip, rl[c].route)
    /\ UNCHANGED <<redis, limits, calls, hits>>

\* a slip in the middleware: allowed is looked at before err
MiddlewareVerdictAllowedFirst(allowed, err) ==
    IF ~allowed THEN AbortVerdict(StatusTooManyRequests)
    ELSE NextVerdict

\* the middleware after the return of CheckRateLimit
MiddlewareVerdict(allowed, err) ==
    IF err THEN NextVerdict
    ELSE IF ~allowed THEN AbortVerdict(StatusTooManyRequests)
    ELSE NextVerdict

RateLimitMiddleware(c) ==
    /\ rl[c].pc = "done"
    /\ rl' = [rl EXCEPT ![c].pc = "answered",
                        ![c].verdict = MiddlewareVerdict(rl[c].allowed, rl[c].err)]
    /\ UNCHANGED <<redis, limits, calls, hits>>

\* the middleware's call of CheckRateLimit for the next request
MiddlewareCall(c, ip, route) ==
    /\ rl[c].pc # "done"
    /\ CheckRateLimit(c, ip, route)

\* redis drops a key when its time to live is over
KeyExpires(key) ==
    /\ redis[key].ttl
    /\ redis' = [redis EXCEPT ![key] = NoCounter]
    /\ hits' = [p \in IPs \X Routes \X Windows |->
                   IF RateLimitKey(p[1], p[2], p[3]) = key THEN 0 ELSE hits[p]]
    /\ UNCHANGED <<rl, limits, calls>>

(***************************************************************************)
(* main from the start of the server to its exit.  ctxDone: the context of *)
(* signal.NotifyContext is cancelled; main: where main stands; accepting:  *)
(* the listener of srv is open; redisOpen: redisStore is not closed;       *)
(* cleaner: where the cleanup goroutine stands; tickerStopped:             *)
(* cleanupTicker.Stop() was called.                                        *)
(***************************************************************************)
Serving ==
    [ctxDone |-> FALSE, main |-> "serving", accepting |-> TRUE,
     redisOpen |-> TRUE, cleaner |-> "select", tickerStopped |-> FALSE]

LifeInit == life = Serving

\* os.Interrupt or SIGTERM cancels ctx
Signal ==
    /\ ~life.ctxDone
    /\ life' = [life EXCEPT !.ctxDone = TRUE]

\* main returns from <-ctx.Done() and calls srv.Shutdown, which closes the
\* listener first
ServerShutdown ==
    /\ life.main = "serving"
    /\ life.ctxDone
    /\ life' = [life EXCEPT !.main = "draining", !.accepting = FALSE]

\* srv.Shutdown returns: the connections are idle, or the 30 seconds of
\* shutdownCtx are over
ShutdownReturns ==
    /\ life.main = "draining"
    /\ life' = [life EXCEPT !.main = "shutdown"]

\* redisStore.Close()
RedisClose ==
    /\ life.main = "shutdown"
    /\ life' = [life EXCEPT !.main = "closed", !.redisOpen = FALSE]

\* a slip in main: it does not wait for the cleanup goroutine
WgWaitSkipped ==
    /\ life.main = "closed"
    /\ life' = [life EXCEPT !.main = "exited"]

\* wg.Wait() returns after the wg.Done() of the cleanup goroutine
WgWait ==
    /\ life.main = "closed"
    /\ life.cleaner = "returned"
    /\ life' = [life EXCEPT !.main = "exited"]

\* the select of the cleanup goroutine takes the case of cleanupTicker.C
TickerCleanup ==
    /\ life.cleaner = "select"
    /\ ~life.tickerStopped
    /\ SweepStart
    /\ life' = [life EXCEPT !.cleaner = "tick"]

\* the select takes the case of ctx.Done(): one final CleanExpired
FinalCleanup ==
    /\ life.cleaner = "select"
    /\ life.ctxDone
    /\ SweepStart
    /\ life' = [life EXCEPT !.cleaner = "final"]

\* CleanExpired returns to the goroutine
CleanupReturns ==
    /\ SweepFinish
    /\ life' = [life EXCEPT !.cleaner = IF @ = "final" THEN "final_done"
                                        ELSE "select"]

\* the goroutine returns: the deferred cleanupTicker.Stop() and wg.Done()
CleanerReturns ==
    /\ life.cleaner = "final_done"
    /\ life' = [life EXCEPT !.cleaner = "returned", !.tickerStopped = TRUE]

\* the server takes a new request only while its listener is open
Accept(request) == life.accepting /\ request

(***************************************************************************)
(* FileStore.mu, a sync.RWMutex, and the goroutines that call the methods  *)
(* of the store.  Each method is the sequence of its calls on mu.          *)
(* readers: the goroutines that hold the read lock; wHolder: the one that  *)
(* has passed Lock's inner mutex, and writing: it holds the write lock;    *)
(* wantR: the readers that a pending or active writer holds back; wantW:   *)
(* the goroutines inside Lock before its inner mutex; th[t]: the method    *)
(* that goroutine t is in and the calls on mu it has still to make.        *)
(***************************************************************************)
Threads == {"h1", "h2", "cleanup"}

\* s.mu.RLock(); defer s.mu.RUnlock()
ReadLocked == <<"RLock", "RUnlock">>
\* s.mu.Lock(); defer s.mu.Unlock()
WriteLocked == <<"Lock", "Unlock">>

\* a slip in Store: the write lock taken first and held over the check of
\* the name
StoreCallsUnderLock ==
    {WriteLocked,
     <<"Lock">> \o ReadLocked \o <<"Unlock">>,
     <<"Lock">> \o ReadLocked \o ReadLocked \o <<"Unlock">>}

\* FileStore.Store: without a name the write alone; with a name
\* IsCustomNameTaken, then GetByCustomName when the name is taken, then the
\* write, unless the name is another record's (an error) or the holder is
\* gone (a panic), both before the write lock; a failed check of the name
\* ends Store after IsCustomNameTaken
StoreCalls ==
    {WriteLocked,
     ReadLocked,
     ReadLocked \o WriteLocked,
     ReadLocked \o ReadLocked \o WriteLocked,
     ReadLocked \o ReadLocked}

\* the calls on mu of each method of the store; CleanExpired scans and
\* removes without the lock and takes it for the statistics, unless the
\* directory cannot be read
MuCalls(op) ==
    CASE op = "Store" -> StoreCalls
      [] op \in {"Get", "GetByCustomName", "IsCustomNameTaken",
                  "GetCleanupStats"} -> {ReadLocked}
      [] op = "Delete" -> {WriteLocked}
      [] op = "CleanExpired" -> {WriteLocked, <<>>}

\* the handlers call Store, Get, GetByCustomName and Delete; the cleanup
\* goroutine calls CleanExpired and GetCleanupStats
OpsOf(t) ==
    IF t = "cleanup" THEN {"CleanExpired", "GetCleanupStats"}
    ELSE {"Store", "Get", "GetByCustomName", "IsCustomNameTaken", "Delete"}

NoCall == [op |-> "none", calls |-> <<>>]

Unlocked ==
    [readers |-> {}, wHolder |-> {}, writing |-> FALSE, wantR |-> {},
     wantW |-> {}, th |-> [t \in Threads |-> NoCall]]

MuInit == mu = Unlocked

\* goroutine t is blocked inside RLock or Lock
Waiting(t) ==
    \/ t \in mu.wantR
    \/ t \in mu.wantW
    \/ mu.wHolder = {t} /\ ~mu.writing

\* goroutine t holds mu, for reading or for writing
Holds(t) == t \in mu.readers \/ (mu.wHolder = {t} /\ mu.writing)

\* the next call on mu of goroutine t is call
NextCall(t, call) ==
    /\ ~Waiting(t)
    /\ mu.th[t].calls # <<>>
    /\ Head(mu.th[t].calls) = call

Called(t) == [mu.th EXCEPT ![t].calls = Tail(@)]

\* goroutine t enters a method of the store
CallStore(t, op) ==
    /\ mu.th[t].op = "none"
    /\ \E script \in MuCalls(op) :
          mu' = [mu EXCEPT !.th[t] = [op |-> op, calls |-> script]]

\* mu.RLock(): at once when no writer is pending or active, otherwise the
\* goroutine is held back until the writer's Unlock
RLock(t) ==
    /\ NextCall(t, "RLock")
    /\ mu' = IF mu.wHolder = {}
             THEN [mu EXCEPT !.readers = @ \cup {t}, !.th = Called(t)]
             ELSE [mu EXCEPT !.wantR = @ \cup {t}, !.th = Called(t)]

\* mu.RUnlock()
RUnlock(t) ==
    /\ NextCall(t, "RUnlock")
    /\ mu' = [mu EXCEPT !.readers = @ \ {t}, !.th = Called(t)]

\* mu.Lock(): the goroutine enters Lock
Lock(t) ==
    /\ NextCall(t, "Lock")
    /\ mu' = [mu EXCEPT !.wantW = @ \cup {t}, !.th = Called(t)]

\* inside Lock: the inner mutex is taken and the writer is announced; new
\* readers are held back from here on
LockAnnounce(t) ==
    /\ t \in mu.wantW
    /\ mu.wHolder = {}
    /\ mu' = [mu EXCEPT !.wantW = @ \ {t}, !.wHolder = {t}]

\* inside Lock: the readers that held mu have left, Lock returns
LockReturns(t) ==
    /\ mu.wHolder = {t}
    /\ ~mu.writing
    /\ mu.readers = {}
    /\ mu' = [mu EXCEPT !.writing = TRUE]

\* mu.Unlock(): the readers held back are let in, then the inner mutex is
\* released
Unlock(t) ==
    /\ NextCall(t, "Unlock")
    /\ mu' = [mu EXCEPT !.wHolder = {}, !.writing = FALSE,
                        !.readers = mu.wantR, !.wantR = {},
                        !.th = Called(t)]

\* the method returns
ReturnStore(t) ==
    /\ ~Waiting(t)
    /\ mu.th[t].op # "none"
    /\ mu.th[t].calls = <<>>
    /\ mu' = [mu EXCEPT !.th[t] = NoCall]

\* the steps of goroutine t inside a method
MuStep(t) ==
    \/ RLock(t) \/ RUnlock(t) \/ Lock(t) \/ LockReturns(t)
    \/ Unlock(t) \/ ReturnStore(t)

(***************************************************************************)
(* A caller of the Encryptor, as the tests of internal/encryption are: it  *)
(* encrypts a text under a password, may wrap the envelope in a second     *)
(* layer under the empty password, and opens what it holds layer by layer, *)
(* with any password and with an Encryptor of any server key.  What it     *)
(* holds may be damaged in between.                                        *)
(***************************************************************************)
Plaintexts == {<<>>, <<"a">>, <<"a", ".", "x">>}
Passwords == {<<>>, <<"p">>, <<"p", "k">>}
ServerKeys == {ServerKey, <<"q">>}
\* the draws of rand.Reader for the second layer: fresh, or the first again
OuterSalts == Salts \cup {"salt2"}
OuterNonces == Nonces \cup {"nonce2"}

\* data, password and serverKey are history: what the first Encrypt was
\* given; right: every Decrypt so far was given the password of its layer
\* and the server key of the Encrypt
IdleCrypto ==
    [pc |-> "idle", data |-> <<>>, password |-> <<>>, serverKey |-> <<>>,
     encrypted |-> <<>>, layers |-> 0, nested |-> FALSE, damaged |-> FALSE,
     right |-> TRUE, out |-> DecryptError]

CryptoInit == crypto = IdleCrypto

\* encryptor.Encrypt(data, password)
EncryptData ==
    /\ crypto.pc = "idle"
    /\ \E text \in Plaintexts, password \in Passwords, serverKey \in ServerKeys,
          salt \in Salts, nonce \in Nonces :
         crypto' = [IdleCrypto EXCEPT
                      !.pc = "sealed", !.data = Bytes(text),
                      !.password = password, !.serverKey = serverKey,
                      !.encrypted = Encrypt(serverKey, Bytes(text), password,
                                            salt, nonce),
                      !.layers = 1]

\* encryptor.Encrypt(clientEncrypted, "")
EncryptAgain ==
    /\ crypto.pc = "sealed"
    /\ crypto.layers = 1
    /\ ~crypto.nested
    /\ ~crypto.damaged
    /\ \E salt \in OuterSalts, nonce \in OuterNonces :
         crypto' = [crypto EXCEPT
                      !.encrypted = Encrypt(crypto.serverKey, crypto.encrypted,
                                            <<>>, salt, nonce),
                      !.layers = 2, !.nested = TRUE]

\* byte strings that no call of Encrypt returns: the envelope cut short,
\* the envelope with one byte of its salt, nonce, text or tag changed, and
\* a text of one character
Damaged(encrypted) ==
    {SubSeq(encrypted, 1, n) :
        n \in {0, saltSize + gcmNonceSize - 1, saltSize + gcmNonceSize,
                Len(encrypted) - 1}}
    \cup {[encrypted EXCEPT ![at] = TextByte("a")] :
             at \in {1, saltSize + 1, saltSize + gcmNonceSize + 1, Len(encrypted)}}
    \cup {Bytes(<<"a">>)}

Damage ==
    /\ crypto.pc = "sealed"
    /\ ~crypto.damaged
    /\ \E bytes \in Damaged(crypto.encrypted) :
         crypto' = [crypto EXCEPT !.encrypted = bytes, !.damaged = TRUE]

\* Decrypt of the outermost layer held, by an Encryptor of serverKey
DecryptData ==
    /\ crypto.pc = "sealed"
    /\ \E password \in Passwords, serverKey \in ServerKeys :
         LET out == Decrypt(serverKey, crypto.encrypted, password)
             expected == IF crypto.layers = 2 THEN <<>> ELSE crypto.password
             right == /\ crypto.right
                      /\ password = expected
                      /\ serverKey = crypto.serverKey
         IN  crypto' = IF out.ok /\ crypto.layers = 2
                       THEN [crypto EXCEPT !.encrypted = out.data, !.layers = 1,
                                           !.right = right, !.out = out]
                       ELSE [crypto EXCEPT
                               !.pc = IF out.ok THEN "opened" ELSE "failed",
                               !.right = right, !.out = out]

ResetCrypto ==
    /\ crypto.pc \in {"opened", "failed"}
    /\ crypto' = IdleCrypto

\* the server is stopped and started again, with any security
\* configuration: the files stay, the requests in flight are gone
Restart ==
    /\ cfg' \in Configs
    /\ wk' = [w \in Workers |-> IdleWorker]
    /\ sweep' = IdleSweep
    /\ cleanupStats' = [lastRun |-> {}, secretsCleaned |-> 0, errors |-> 0]
    /\ UNCHANGED <<now, files, usedIds, sent>>

storeVars == <<cfg, now, files, usedIds, wk, sweep, cleanupStats, sent>>
rateVars == <<redis, rl, limits, calls, hits>>
vars == <<cfg, now, files, usedIds, wk, sweep, cleanupStats, sent,
          redis, rl, limits, calls, hits, crypto, life, mu>>

\* the limits of the README's test
TestLimits == [requestsPerHour |-> HourLimit, requestsPerMinute |-> MinuteLimit]
SmallLimits == [requestsPerHour |-> SmallHourLimit,
                requestsPerMinute |-> SmallMinuteLimit]

Init == StoreInit({ShippedConfig}) /\ RateLimitInit(TestLimits, 0) /\ CryptoInit /\ LifeInit /\ MuInit

Next ==
    \/ CreateSecret("w1", PlainContentInputs, ExpiryInputs(now)) /\ UNCHANGED <<rateVars, crypto, life, mu>>
    \/ StoreCheckName("w1") /\ UNCHANGED <<rateVars, crypto, life, mu>>
    \/ StoreGetExisting("w1") /\ UNCHANGED <<rateVars, crypto, life, mu>>
    \/ StoreWrite("w1") /\ UNCHANGED <<rateVars, crypto, life, mu>>
    \/ GetSecret("w1") /\ UNCHANGED <<rateVars, crypto, life, mu>>
    \/ GetSecretByName("w1") /\ UNCHANGED <<rateVars, crypto, life, mu>>
    \/ CheckAndPrepare("w1") /\ UNCHANGED <<rateVars, crypto, life, mu>>
    \/ DeleteExpired("w1") /\ UNCHANGED <<rateVars, crypto, life, mu>>
    \/ DeleteBurn("w1") /\ UNCHANGED <<rateVars, crypto, life, mu>>
    \/ Finish("w1") /\ UNCHANGED <<rateVars, crypto, life, mu>>
    \/ SweepStart /\ UNCHANGED <<rateVars, crypto, life, mu>>
    \/ SweepRead /\ UNCHANGED <<rateVars, crypto, life, mu>>
    \/ SweepRemove /\ UNCHANGED <<rateVars, crypto, life, mu>>
    \/ SweepFinish /\ UNCHANGED <<rateVars, crypto, life, mu>>
    \/ Tick /\ UNCHANGED <<rateVars, crypto, life, mu>>

Spec == Init /\ [][Next]_vars

(***************************************************************************)
(* Requests served in parallel by two workers, the clock standing still,   *)
(* under every configuration.                                              *)
(***************************************************************************)
ConfigInit == StoreInit(Configs) /\ RateLimitInit(TestLimits, 0) /\ CryptoInit /\ LifeInit /\ MuInit

RaceNext ==
    \/ \E w \in Workers : CreateSecret(w, {GoodContent}, ExpiryInputs(now)) /\ UNCHANGED <<rateVars, crypto, life, mu>>
    \/ \E w \in Workers : StoreCheckName(w) /\ UNCHANGED <<rateVars, crypto, life, mu>>
    \/ \E w \in Workers : StoreGetExisting(w) /\ UNCHANGED <<rateVars, crypto, life, mu>>
    \/ \E w \in Workers : StoreWrite(w) /\ UNCHANGED <<rateVars, crypto, life, mu>>
    \/ \E w \in Workers : GetSecret(w) /\ UNCHANGED <<rateVars, crypto, life, mu>>
    \/ \E w \in Workers : GetSecretByName(w) /\ UNCHANGED <<rateVars, crypto, life, mu>>
    \/ \E w \in Workers : CheckAndPrepare(w) /\ UNCHANGED <<rateVars, crypto, life, mu>>
    \/ \E w \in Workers : DeleteBurn(w) /\ UNCHANGED <<rateVars, crypto, life, mu>>
    \/ \E w \in Workers : Finish(w) /\ UNCHANGED <<rateVars, crypto, life, mu>>

SpecRace == ConfigInit /\ [][RaceNext]_vars

(***************************************************************************)
(* One worker and every content a client can send, the clock standing      *)
(* still.                                                                  *)
(***************************************************************************)
ContentNext ==
    \/ CreateSecret("w1", ContentInputs, ExpiryInputs(now)) /\ UNCHANGED <<rateVars, crypto, life, mu>>
    \/ StoreCheckName("w1") /\ UNCHANGED <<rateVars, crypto, life, mu>>
    \/ StoreGetExisting("w1") /\ UNCHANGED <<rateVars, crypto, life, mu>>
    \/ StoreWrite("w1") /\ UNCHANGED <<rateVars, crypto, life, mu>>
    \/ GetSecret("w1") /\ UNCHANGED <<rateVars, crypto, life, mu>>
    \/ GetSecretByName("w1") /\ UNCHANGED <<rateVars, crypto, life, mu>>
    \/ CheckAndPrepare("w1") /\ UNCHANGED <<rateVars, crypto, life, mu>>
    \/ DeleteBurn("w1") /\ UNCHANGED <<rateVars, crypto, life, mu>>
    \/ Finish("w1") /\ UNCHANGED <<rateVars, crypto, life, mu>>

SpecContent == ConfigInit /\ [][ContentNext]_vars

(***************************************************************************)
(* One worker that creates and reads by name, a name longer than the        *)
(* configured maximum among the names, under every configuration.          *)
(***************************************************************************)
NamesNext ==
    \/ CreateSecretOf("w1", {GoodContent}, {{}}, LongNameInputs) /\ UNCHANGED <<rateVars, crypto, life, mu>>
    \/ StoreCheckName("w1") /\ UNCHANGED <<rateVars, crypto, life, mu>>
    \/ StoreGetExisting("w1") /\ UNCHANGED <<rateVars, crypto, life, mu>>
    \/ StoreWrite("w1") /\ UNCHANGED <<rateVars, crypto, life, mu>>
    \/ GetSecretByName("w1") /\ UNCHANGED <<rateVars, crypto, life, mu>>
    \/ CheckAndPrepare("w1") /\ UNCHANGED <<rateVars, crypto, life, mu>>
    \/ DeleteBurn("w1") /\ UNCHANGED <<rateVars, crypto, life, mu>>
    \/ Finish("w1") /\ UNCHANGED <<rateVars, crypto, life, mu>>

SpecNames == ConfigInit /\ [][NamesNext]_vars

(***************************************************************************)
(* One worker that creates, with requested expiries at and around every    *)
(* allowed duration, while the clock advances.                             *)
(***************************************************************************)
ExpiryNext ==
    \/ CreateSecret("w1", {GoodContent}, WideExpiryInputs(now)) /\ UNCHANGED <<rateVars, crypto, life, mu>>
    \/ StoreCheckName("w1") /\ UNCHANGED <<rateVars, crypto, life, mu>>
    \/ StoreGetExisting("w1") /\ UNCHANGED <<rateVars, crypto, life, mu>>
    \/ StoreWrite("w1") /\ UNCHANGED <<rateVars, crypto, life, mu>>
    \/ Finish("w1") /\ UNCHANGED <<rateVars, crypto, life, mu>>
    \/ Tick /\ UNCHANGED <<rateVars, crypto, life, mu>>

SpecExpiry == Init /\ [][ExpiryNext]_vars

(***************************************************************************)
(* The rate limiter: one client that calls for one pair, with the limits   *)
(* of the README's test.                                                   *)
(***************************************************************************)
SeqIP == <<"1">>
SeqRoute == <<"/", "s">>

SeqInit == StoreInit({ShippedConfig}) /\ RateLimitInit(TestLimits, MaxSeqCalls) /\ CryptoInit /\ LifeInit /\ MuInit

SeqNext ==
    \/ CheckRateLimit("c1", SeqIP, SeqRoute) /\ UNCHANGED <<storeVars, crypto, life, mu>>
    \/ GetMinuteCount("c1") /\ UNCHANGED <<storeVars, crypto, life, mu>>
    \/ IncrHour("c1") /\ UNCHANGED <<storeVars, crypto, life, mu>>
    \/ ExpireHour("c1") /\ UNCHANGED <<storeVars, crypto, life, mu>>
    \/ IncrMinute("c1") /\ UNCHANGED <<storeVars, crypto, life, mu>>
    \/ ExpireMinute("c1") /\ UNCHANGED <<storeVars, crypto, life, mu>>
    \/ \E key \in Keys : KeyExpires(key) /\ UNCHANGED <<storeVars, crypto, life, mu>>

SpecSeq == SeqInit /\ [][SeqNext]_vars

(***************************************************************************)
(* The rate limiter: two clients that call in parallel, for any pair.      *)
(***************************************************************************)
RateInit == StoreInit({ShippedConfig}) /\ RateLimitInit(SmallLimits, MaxCalls) /\ CryptoInit /\ LifeInit /\ MuInit

RateNext ==
    \/ \E c \in Clients, ip \in IPs, route \in Routes :
          CheckRateLimit(c, ip, route) /\ UNCHANGED <<storeVars, crypto, life, mu>>
    \/ \E c \in Clients : GetMinuteCount(c) /\ UNCHANGED <<storeVars, crypto, life, mu>>
    \/ \E c \in Clients : IncrHour(c) /\ UNCHANGED <<storeVars, crypto, life, mu>>
    \/ \E c \in Clients : ExpireHour(c) /\ UNCHANGED <<storeVars, crypto, life, mu>>
    \/ \E c \in Clients : IncrMinute(c) /\ UNCHANGED <<storeVars, crypto, life, mu>>
    \/ \E c \in Clients : ExpireMinute(c) /\ UNCHANGED <<storeVars, crypto, life, mu>>
    \/ \E key \in Keys : KeyExpires(key) /\ UNCHANGED <<storeVars, crypto, life, mu>>

SpecRate == RateInit /\ [][RateNext]_vars


(***************************************************************************)
(* The middleware in front of a redis whose commands can fail: two clients *)
(* whose requests pass through it in parallel.                             *)
(***************************************************************************)
MaxBackendCalls == 3

BackendInit ==
    StoreInit({ShippedConfig}) /\ RateLimitInit(SmallLimits, MaxBackendCalls)
    /\ CryptoInit /\ LifeInit /\ MuInit

BackendNext ==
    \/ \E c \in Clients, route \in Routes :
          MiddlewareCall(c, SeqIP, route) /\ UNCHANGED <<storeVars, crypto, life, mu>>
    \/ \E c \in Clients, route \in Routes :
          GetHourError(c, SeqIP, route) /\ UNCHANGED <<storeVars, crypto, life, mu>>
    \/ \E c \in Clients : GetMinuteCount(c) /\ UNCHANGED <<storeVars, crypto, life, mu>>
    \/ \E c \in Clients : GetMinuteError(c) /\ UNCHANGED <<storeVars, crypto, life, mu>>
    \/ \E c \in Clients : IncrHour(c) /\ UNCHANGED <<storeVars, crypto, life, mu>>
    \/ \E c \in Clients : ExpireHour(c) /\ UNCHANGED <<storeVars, crypto, life, mu>>
    \/ \E c \in Clients : IncrMinute(c) /\ UNCHANGED <<storeVars, crypto, life, mu>>
    \/ \E c \in Clients : ExpireMinute(c) /\ UNCHANGED <<storeVars, crypto, life, mu>>
    \/ \E c \in Clients : ExecError(c) /\ UNCHANGED <<storeVars, crypto, life, mu>>
    \/ \E c \in Clients : RateLimitMiddleware(c) /\ UNCHANGED <<storeVars, crypto, life, mu>>
    \/ \E key \in Keys : KeyExpires(key) /\ UNCHANGED <<storeVars, crypto, life, mu>>

SpecBackend == BackendInit /\ [][BackendNext]_vars

(***************************************************************************)
(* Two workers that read by id in parallel what the first of them created, *)
(* under the shipped configuration, the clock standing still.              *)
(***************************************************************************)
DeleteNext ==
    \/ CreateSecret("w1", {GoodContent}, {{}}) /\ UNCHANGED <<rateVars, crypto, life, mu>>
    \/ StoreCheckName("w1") /\ UNCHANGED <<rateVars, crypto, life, mu>>
    \/ StoreGetExisting("w1") /\ UNCHANGED <<rateVars, crypto, life, mu>>
    \/ StoreWrite("w1") /\ UNCHANGED <<rateVars, crypto, life, mu>>
    \/ \E w \in Workers : GetSecret(w) /\ UNCHANGED <<rateVars, crypto, life, mu>>
    \/ \E w \in Workers : CheckAndPrepare(w) /\ UNCHANGED <<rateVars, crypto, life, mu>>
    \/ \E w \in Workers : DeleteBurn(w) /\ UNCHANGED <<rateVars, crypto, life, mu>>
    \/ \E w \in Workers : Finish(w) /\ UNCHANGED <<rateVars, crypto, life, mu>>

SpecDelete == Init /\ [][DeleteNext]_vars

(***************************************************************************)
(* One worker that creates with the default expiry and reads by id and by  *)
(* name while the clock advances; the cleanup goroutine does not run.      *)
(***************************************************************************)
LookupNext ==
    \/ CreateSecret("w1", {GoodContent}, {{}}) /\ UNCHANGED <<rateVars, crypto, life, mu>>
    \/ StoreCheckName("w1") /\ UNCHANGED <<rateVars, crypto, life, mu>>
    \/ StoreGetExisting("w1") /\ UNCHANGED <<rateVars, crypto, life, mu>>
    \/ StoreWrite("w1") /\ UNCHANGED <<rateVars, crypto, life, mu>>
    \/ GetSecret("w1") /\ UNCHANGED <<rateVars, crypto, life, mu>>
    \/ GetSecretByName("w1") /\ UNCHANGED <<rateVars, crypto, life, mu>>
    \/ CheckAndPrepare("w1") /\ UNCHANGED <<rateVars, crypto, life, mu>>
    \/ DeleteExpired("w1") /\ UNCHANGED <<rateVars, crypto, life, mu>>
    \/ DeleteBurn("w1") /\ UNCHANGED <<rateVars, crypto, life, mu>>
    \/ Finish("w1") /\ UNCHANGED <<rateVars, crypto, life, mu>>
    \/ Tick /\ UNCHANGED <<rateVars, crypto, life, mu>>

SpecLookup == Init /\ [][LookupNext]_vars

(***************************************************************************)
(* The cleanup goroutine next to one worker that creates unnamed secrets   *)
(* with the default expiry and reads them by id, while the clock advances. *)
(***************************************************************************)
CleanupNext ==
    \/ CreateSecretOf("w1", {GoodContent}, {{}}, {<<>>}) /\ UNCHANGED <<rateVars, crypto, life, mu>>
    \/ StoreWrite("w1") /\ UNCHANGED <<rateVars, crypto, life, mu>>
    \/ GetSecret("w1") /\ UNCHANGED <<rateVars, crypto, life, mu>>
    \/ CheckAndPrepare("w1") /\ UNCHANGED <<rateVars, crypto, life, mu>>
    \/ DeleteExpired("w1") /\ UNCHANGED <<rateVars, crypto, life, mu>>
    \/ DeleteBurn("w1") /\ UNCHANGED <<rateVars, crypto, life, mu>>
    \/ Finish("w1") /\ UNCHANGED <<rateVars, crypto, life, mu>>
    \/ SweepStart /\ UNCHANGED <<rateVars, crypto, life, mu>>
    \/ SweepRead /\ UNCHANGED <<rateVars, crypto, life, mu>>
    \/ SweepRemove /\ UNCHANGED <<rateVars, crypto, life, mu>>
    \/ SweepFinish /\ UNCHANGED <<rateVars, crypto, life, mu>>
    \/ Tick /\ UNCHANGED <<rateVars, crypto, life, mu>>

SpecCleanup == Init /\ [][CleanupNext]_vars

(***************************************************************************)
(* The server from its start to its exit: one worker that creates unnamed  *)
(* secrets with the default expiry while the listener is open, the cleanup *)
(* goroutine, the clock, and main on a shutdown signal.                    *)
(***************************************************************************)
ShutdownNext ==
    \/ Accept(CreateSecretOf("w1", {GoodContent}, {{}}, {<<>>})) /\ UNCHANGED <<rateVars, crypto, life, mu>>
    \/ StoreWrite("w1") /\ UNCHANGED <<rateVars, crypto, life, mu>>
    \/ Finish("w1") /\ UNCHANGED <<rateVars, crypto, life, mu>>
    \/ Tick /\ UNCHANGED <<rateVars, crypto, life, mu>>
    \/ TickerCleanup /\ UNCHANGED <<rateVars, crypto, mu>>
    \/ FinalCleanup /\ UNCHANGED <<rateVars, crypto, mu>>
    \/ SweepRead /\ UNCHANGED <<rateVars, crypto, life, mu>>
    \/ SweepRemove /\ UNCHANGED <<rateVars, crypto, life, mu>>
    \/ CleanupReturns /\ UNCHANGED <<rateVars, crypto, mu>>
    \/ CleanerReturns /\ UNCHANGED <<storeVars, rateVars, crypto, mu>>
    \/ Signal /\ UNCHANGED <<storeVars, rateVars, crypto, mu>>
    \/ ServerShutdown /\ UNCHANGED <<storeVars, rateVars, crypto, mu>>
    \/ ShutdownReturns /\ UNCHANGED <<storeVars, rateVars, crypto, mu>>
    \/ RedisClose /\ UNCHANGED <<storeVars, rateVars, crypto, mu>>
    \/ WgWait /\ UNCHANGED <<storeVars, rateVars, crypto, mu>>

SpecShutdown == Init /\ [][ShutdownNext]_vars

(***************************************************************************)
(* One worker that creates and reads by id on a disk whose os.Remove can   *)
(* fail.                                                                   *)
(***************************************************************************)
DiskNext ==
    \/ CreateSecretOf("w1", {GoodContent}, {{}}, {<<>>}) /\ UNCHANGED <<rateVars, crypto, life, mu>>
    \/ StoreWrite("w1") /\ UNCHANGED <<rateVars, crypto, life, mu>>
    \/ GetSecret("w1") /\ UNCHANGED <<rateVars, crypto, life, mu>>
    \/ CheckAndPrepare("w1") /\ UNCHANGED <<rateVars, crypto, life, mu>>
    \/ DeleteBurn("w1") /\ UNCHANGED <<rateVars, crypto, life, mu>>
    \/ DeleteBurnFails("w1") /\ UNCHANGED <<rateVars, crypto, life, mu>>
    \/ Finish("w1") /\ UNCHANGED <<rateVars, crypto, life, mu>>

SpecDisk == Init /\ [][DiskNext]_vars

(***************************************************************************)
(* One worker that creates and reads, by name and by id, the ids spelled   *)
(* in small or in capital letters.                                         *)
(***************************************************************************)
CaseNext ==
    \/ CreateSecretOf("w1", {GoodContent}, {{}}, NameInputs) /\ UNCHANGED <<rateVars, crypto, life, mu>>
    \/ StoreCheckName("w1") /\ UNCHANGED <<rateVars, crypto, life, mu>>
    \/ StoreGetExisting("w1") /\ UNCHANGED <<rateVars, crypto, life, mu>>
    \/ StoreWrite("w1") /\ UNCHANGED <<rateVars, crypto, life, mu>>
    \/ GetSecretOf("w1", CaseIdInputs) /\ UNCHANGED <<rateVars, crypto, life, mu>>
    \/ GetSecretByName("w1") /\ UNCHANGED <<rateVars, crypto, life, mu>>
    \/ CheckAndPrepare("w1") /\ UNCHANGED <<rateVars, crypto, life, mu>>
    \/ DeleteBurn("w1") /\ UNCHANGED <<rateVars, crypto, life, mu>>
    \/ Finish("w1") /\ UNCHANGED <<rateVars, crypto, life, mu>>

SpecCase == Init /\ [][CaseNext]_vars

(***************************************************************************)
(* FileStore.mu under two handler goroutines and the cleanup goroutine,    *)
(* each calling the methods of the store one after the other.  The         *)
(* scheduler is fair to every goroutine that can run, and the inner mutex  *)
(* of Lock does not starve a goroutine that waits for it.                  *)
(***************************************************************************)
MuNext ==
    \/ \E t \in Threads : \E op \in OpsOf(t) :
          CallStore(t, op) /\ UNCHANGED <<storeVars, rateVars, crypto, life>>
    \/ \E t \in Threads : RLock(t) /\ UNCHANGED <<storeVars, rateVars, crypto, life>>
    \/ \E t \in Threads : RUnlock(t) /\ UNCHANGED <<storeVars, rateVars, crypto, life>>
    \/ \E t \in Threads : Lock(t) /\ UNCHANGED <<storeVars, rateVars, crypto, life>>
    \/ \E t \in Threads : LockAnnounce(t) /\ UNCHANGED <<storeVars, rateVars, crypto, life>>
    \/ \E t \in Threads : LockReturns(t) /\ UNCHANGED <<storeVars, rateVars, crypto, life>>
    \/ \E t \in Threads : Unlock(t) /\ UNCHANGED <<storeVars, rateVars, crypto, life>>
    \/ \E t \in Threads : ReturnStore(t) /\ UNCHANGED <<storeVars, rateVars, crypto, life>>

SpecMu ==
    /\ Init
    /\ [][MuNext]_vars
    /\ \A t \in Threads :
          /\ WF_vars(MuStep(t) /\ UNCHANGED <<storeVars, rateVars, crypto, life>>)
          /\ SF_vars(LockAnnounce(t) /\ UNCHANGED <<storeVars, rateVars, crypto, life>>)

(***************************************************************************)
(* The Encryptor alone.                                                    *)
(***************************************************************************)
CryptoNext ==
    \/ EncryptData /\ UNCHANGED <<storeVars, rateVars, life, mu>>
    \/ EncryptAgain /\ UNCHANGED <<storeVars, rateVars, life, mu>>
    \/ Damage /\ UNCHANGED <<storeVars, rateVars, life, mu>>
    \/ DecryptData /\ UNCHANGED <<storeVars, rateVars, life, mu>>
    \/ ResetCrypto /\ UNCHANGED <<storeVars, rateVars, life, mu>>

SpecCrypto == Init /\ [][CryptoNext]_vars

(***************************************************************************)
(* One worker whose server is restarted between requests, under any        *)
(* configuration; the contents are well formed.                            *)
(***************************************************************************)
RestartNext ==
    \/ CreateSecret("w1", {GoodContent}, {{}}) /\ UNCHANGED <<rateVars, crypto, life, mu>>
    \/ StoreCheckName("w1") /\ UNCHANGED <<rateVars, crypto, life, mu>>
    \/ StoreGetExisting("w1") /\ UNCHANGED <<rateVars, crypto, life, mu>>
    \/ StoreWrite("w1") /\ UNCHANGED <<rateVars, crypto, life, mu>>
    \/ GetSecret("w1") /\ UNCHANGED <<rateVars, crypto, life, mu>>
    \/ GetSecretByName("w1") /\ UNCHANGED <<rateVars, crypto, life, mu>>
    \/ CheckAndPrepare("w1") /\ UNCHANGED <<rateVars, crypto, life, mu>>
    \/ DeleteBurn("w1") /\ UNCHANGED <<rateVars, crypto, life, mu>>
    \/ Finish("w1") /\ UNCHANGED <<rateVars, crypto, life, mu>>
    \/ Restart /\ UNCHANGED <<rateVars, crypto, life, mu>>

SpecRestart == ConfigInit /\ [][RestartNext]_vars

(***************************************************************************)
(* The cleanup goroutine's ticker keeps firing and the goroutine keeps     *)
(* being scheduled: every step of CleanExpired is taken in the end.  The   *)
(* creates ask for the default expiry.                                     *)
(***************************************************************************)
FairNext ==
    \/ CreateSecret("w1", {GoodContent}, {{}}) /\ UNCHANGED <<rateVars, crypto, life, mu>>
    \/ StoreCheckName("w1") /\ UNCHANGED <<rateVars, crypto, life, mu>>
    \/ StoreGetExisting("w1") /\ UNCHANGED <<rateVars, crypto, life, mu>>
    \/ StoreWrite("w1") /\ UNCHANGED <<rateVars, crypto, life, mu>>
    \/ GetSecret("w1") /\ UNCHANGED <<rateVars, crypto, life, mu>>
    \/ GetSecretByName("w1") /\ UNCHANGED <<rateVars, crypto, life, mu>>
    \/ CheckAndPrepare("w1") /\ UNCHANGED <<rateVars, crypto, life, mu>>
    \/ DeleteExpired("w1") /\ UNCHANGED <<rateVars, crypto, life, mu>>
    \/ DeleteBurn("w1") /\ UNCHANGED <<rateVars, crypto, life, mu>>
    \/ Finish("w1") /\ UNCHANGED <<rateVars, crypto, life, mu>>
    \/ SweepStart /\ UNCHANGED <<rateVars, crypto, life, mu>>
    \/ SweepRead /\ UNCHANGED <<rateVars, crypto, life, mu>>
    \/ SweepRemove /\ UNCHANGED <<rateVars, crypto, life, mu>>
    \/ SweepFinish /\ UNCHANGED <<rateVars, crypto, life, mu>>
    \/ Tick /\ UNCHANGED <<rateVars, crypto, life, mu>>

SpecFair ==
    /\ Init
    /\ [][FairNext]_vars
    /\ WF_vars(SweepStart /\ UNCHANGED <<rateVars, crypto, life, mu>>)
    /\ WF_vars(SweepRead /\ UNCHANGED <<rateVars, crypto, life, mu>>)
    /\ WF_vars(SweepRemove /\ UNCHANGED <<rateVars, crypto, life, mu>>)
    /\ WF_vars(SweepFinish /\ UNCHANGED <<rateVars, crypto, life, mu>>)

(***************************************************************************)
(* Properties.                                                             *)
(***************************************************************************)
Reads == {"get", "get_by_name"}
HasFile(id) == \E s \in files : s.ID = id
\* expires_at is set and earlier than the current time
PastExpiry(s) == \E e \in s.ExpiresAt : e < now
Answered(w) == wk[w].pc = "done"

\* C1: concurrent creates that carry the same non-empty custom name never
\* leave more than one persisted record of that name: at most one of them
\* succeeds.
C1_OneRecordPerName ==
    \A s \in files, t \in files :
        (s.CustomName # <<>> /\ s.CustomName = t.CustomName) => s.ID = t.ID

\* C2: with one request at a time, a read by id or by name that finds a
\* burn-after-reading secret answers 200 with the content that was sent, and
\* the record is gone when the answer is given.
C2_BurnReadOnce ==
    \A w \in Workers :
        (/\ Answered(w)
         /\ wk[w].op \in Reads
         /\ wk[w].secret # NoSecret
         /\ wk[w].secret.IsBurnAfterReading)
        => /\ wk[w].resp.status = StatusOK
           /\ wk[w].resp.content = sent[wk[w].secret.ID]
           /\ ~HasFile(wk[w].secret.ID)

\* C3, the answers: a read answers 410 only for a record that it found and
\* whose expiry has passed, the record is then gone and the answer carries
\* no ciphertext; a read answers 404 only when it found no record.
C3_ExpiredAnswer ==
    \A w \in Workers :
        (Answered(w) /\ wk[w].op \in Reads) =>
            /\ (wk[w].resp.status = StatusGone) =>
                   /\ wk[w].secret # NoSecret
                   /\ PastExpiry(wk[w].secret)
                   /\ ~HasFile(wk[w].secret.ID)
                   /\ wk[w].resp.content = NoContent
            /\ (wk[w].resp.status = StatusNotFound) => wk[w].secret = NoSecret

\* the records that a read request asks for
AskedFor(dir, request) ==
    IF request.op = "get" THEN {s \in dir : s.ID = request.reqId}
    ELSE {s \in dir : s.CustomName = request.reqName}

\* C3, the steps: a read that passes validation and captcha answers 404 when
\* no record matches and goes on with a matching record otherwise; a read
\* that holds a record whose expiry has passed goes on to delete it, and then
\* answers 410.
C3_ExpiredStep ==
    \A w \in Workers :
        /\ (/\ wk[w].pc = "idle"
            /\ wk'[w].op \in Reads
            /\ wk'[w].resp.status \notin {StatusBadRequest, StatusInternalServerError})
           => IF AskedFor(files, wk'[w]) = {}
              THEN wk'[w].pc = "done" /\ wk'[w].resp.status = StatusNotFound
              ELSE wk'[w].pc = "check" /\ wk'[w].secret \in AskedFor(files, wk'[w])
        /\ (wk[w].pc = "check" /\ wk'[w] # wk[w] /\ PastExpiry(wk[w].secret))
           => wk'[w].pc = "delete_expired"
        /\ (wk[w].pc = "delete_expired" /\ wk'[w] # wk[w])
           => /\ wk'[w].pc = "done"
              /\ wk'[w].resp.status = StatusGone
              /\ ~(\E s \in files' : s.ID = wk[w].secret.ID)

C4_SweepExact ==
    [][(sweep.pc = "read" /\ sweep'.pc = "idle") =>
         \A s \in sweep.atStart :
            /\ (\E e \in s.ExpiresAt : e < sweep.startedAt) => s \notin files'
            /\ (s.ExpiresAt = {} \/ \E e \in s.ExpiresAt : e > now) => s \in files'
      ]_vars

\* C5: under the fairness of the cleanup goroutine, a stored secret whose
\* expiry has passed is absent from the store in the end, whether or not it
\* is read.
C5_EventuallySwept ==
    \A id \in Ids :
        (\E s \in files : s.ID = id /\ PastExpiry(s)) ~> ~HasFile(id)

C5_Witness == cleanupStats.secretsCleaned >= 1

\* C10: a read that finds a stored secret before its expiry answers 200 with
\* exactly the three parts that the client sent to create.
C10_RoundTrip ==
    \A w \in Workers :
        (/\ Answered(w)
         /\ wk[w].op \in Reads
         /\ wk[w].secret # NoSecret
         /\ ~PastExpiry(wk[w].secret))
        => /\ wk[w].resp.status = StatusOK
           /\ wk[w].resp.content = sent[wk[w].secret.ID]

\* the distance of a requested expiry from the handler's now lies within one
\* second of d
WithinASecond(asked, d) ==
    \E e \in asked.ExpiresAt :
        e - asked.at - d <= Second /\ d - (e - asked.at) <= Second

\* the expiry that the claim gives a request: a set with no element when the
\* request is to be rejected
NormalExpiry(asked) ==
    IF asked.ExpiresAt = {} THEN {asked.at + 10 * Minute}
    ELSE {asked.at + d : d \in {a \in AllowedExpiryTimes : WithinASecond(asked, a)}}

\* C9, the states: a create that is not burn-after-reading and that has come
\* to the expiry carries, and stores, a secret that expires at now+10m when
\* no expiry was requested and at now plus the allowed duration that the
\* requested one is within a second of; with any other requested expiry it
\* is answered 400 and has no secret to store.
C9_ExpiryStored ==
    \A w \in Workers :
        (wk[w].asked.reached /\ ~wk[w].asked.burn) =>
            IF NormalExpiry(wk[w].asked) = {}
            THEN /\ wk[w].pc = "done"
                 /\ wk[w].resp.status = StatusBadRequest
                 /\ wk[w].secret = NoSecret
            ELSE /\ wk[w].secret # NoSecret
                 /\ wk[w].secret.ExpiresAt = NormalExpiry(wk[w].asked)
                 /\ (wk[w].resp.status = StatusOK) =>
                        \E s \in files : /\ s.ID = wk[w].secret.ID
                                         /\ s.ExpiresAt = NormalExpiry(wk[w].asked)

\* C9, the steps: the create that is rejected for its expiry persists nothing.
C9_ExpiryStep ==
    \A w \in Workers :
        (/\ wk[w].pc = "idle"
         /\ wk'[w].asked.reached
         /\ NormalExpiry(wk'[w].asked) = {})
        => files' = files

\* C9: for a create that is not burn-after-reading, an unset expiry is stored
\* as now+10m, a requested expiry within one second of one of 10m, 30m, 1h,
\* 24h, 7d is stored as exactly now plus that duration, and any other
\* requested expiry is rejected with 400 and nothing is persisted.
C9_ExpiryNormalised == []C9_ExpiryStored /\ [][C9_ExpiryStep]_vars

\* a stored secret that was asked for at one end of the tolerance
C9_Witness ==
    \E w \in Workers :
        /\ wk[w].asked.reached
        /\ ~wk[w].asked.burn
        /\ wk[w].asked.ExpiresAt = {wk[w].asked.at + 30 * Minute + Second}
        /\ wk[w].resp.status = StatusOK
        /\ \E s \in files : s.ID = wk[w].secret.ID

\* the client's call is admitted, or rejected, in this step
Admitted(c) == rl[c].pc = "get_minute" /\ rl'[c].pc = "incr_hour"
Rejected(c) == rl[c].pc \in {"idle", "done", "get_minute"} /\ rl'[c] # rl[c]
                  /\ rl'[c].pc = "done"
AdmittedSoFar(c, window) == hits[<<rl'[c].ip, rl'[c].route, window>>]

\* C6, the steps: with one call at a time, a call is admitted when fewer than
\* 5 requests were admitted in the present lifetime of the minute counter and
\* fewer than 10 in that of the hour counter, and it is rejected otherwise.
C6_Decision ==
    \A c \in Clients :
        /\ Admitted(c) => /\ AdmittedSoFar(c, "minute") < MinuteLimit
                          /\ AdmittedSoFar(c, "hour") < HourLimit
        /\ Rejected(c) => \/ AdmittedSoFar(c, "minute") >= MinuteLimit
                          \/ AdmittedSoFar(c, "hour") >= HourLimit

\* C6, the states: no more than 5 requests are admitted in one lifetime of
\* the minute counter and no more than 10 in one of the hour counter.
C6_Counts ==
    /\ hits[<<SeqIP, SeqRoute, "minute">>] <= MinuteLimit
    /\ hits[<<SeqIP, SeqRoute, "hour">>] <= HourLimit

\* C6: for one pair, with the limits 10 and 5 and one call at a time from
\* empty counters, the calls 1 to 5 of a minute are allowed, the 6th is
\* rejected, and a call after the expiry of the minute counter is allowed
\* again while the hour count is below 10.
C6_SequentialLimits == []C6_Counts /\ [][C6_Decision]_vars

\* a call allowed after a call was rejected on the minute
C6_Witness ==
    /\ rl["c1"].pc = "done"
    /\ rl["c1"].allowed
    /\ rl["c1"].minuteRefused

\* C7: in every interleaving, the requests admitted on a pair in one lifetime
\* of its minute counter are at most requestsPerMinute, and those in one
\* lifetime of its hour counter at most requestsPerHour.
C7_WithinLimits ==
    \A ip \in IPs, route \in Routes :
        /\ hits[<<ip, route, "minute">>] <= limits.requestsPerMinute
        /\ hits[<<ip, route, "hour">>] <= limits.requestsPerHour

\* C8, the states: the counter of a pair's key counts the requests admitted
\* on that pair, and no others.
C8_CountsOfPair ==
    \A ip \in IPs, route \in Routes, window \in Windows :
        redis[RateLimitKey(ip, route, window)].count = hits[<<ip, route, window>>]

\* C8, the steps: a step of a call leaves the counters of every other pair as
\* they are, and what it reads are the counts of its own pair.
C8_Frame ==
    \A c \in Clients :
        (rl'[c] # rl[c]) =>
            /\ \A ip \in IPs, route \in Routes, window \in Windows :
                  (<<ip, route>> # <<rl'[c].ip, rl'[c].route>>) =>
                      redis'[RateLimitKey(ip, route, window)]
                          = redis[RateLimitKey(ip, route, window)]
            /\ (rl[c].pc \in {"idle", "done"}) =>
                  rl'[c].hourCount = AdmittedSoFar(c, "hour")
            /\ (rl[c].pc = "get_minute") =>
                  rl'[c].minuteCount = AdmittedSoFar(c, "minute")

\* C8: CheckRateLimit for a pair reads and changes the two counters of that
\* pair only: requests from another ip or on another route change neither
\* its counts nor whether a request on it is allowed.
C8_OwnCountersOnly == []C8_CountsOfPair /\ [][C8_Frame]_vars

\* a request allowed on one route while the other route of the same ip is at
\* its minute limit
C8_Witness ==
    \E c \in Clients, ip \in IPs, route \in Routes :
        /\ rl[c].pc = "done" /\ rl[c].allowed
        /\ rl[c].ip = ip /\ rl[c].route # route
        /\ hits[<<ip, route, "minute">>] >= limits.requestsPerMinute

\* the worker's create ends in this step with the name-taken answer
NameTaken(w) ==
    /\ wk[w].op = "create"
    /\ wk[w].pc # "done"
    /\ wk'[w].pc = "done"
    /\ wk'[w].resp.status = StatusConflict

\* C11: a create with custom name N is not refused for the name when every
\* stored record that holds N has its expires_at in the past, swept or not:
\* the name-taken answer is given only when a record that holds N has not
\* expired.
C11_ExpiredNameFree ==
    [][\A w \in Workers :
          NameTaken(w) =>
              \E s \in files : /\ s.CustomName = wk[w].secret.CustomName
                               /\ ~PastExpiry(s)
      ]_vars

\* the stored records, other than the worker's own, that hold its name
Holders(w) ==
    {s \in files : /\ s.CustomName = wk[w].secret.CustomName
                   /\ s.ID # wk[w].secret.ID}

\* C12, the states: with one request at a time, a create that came to the
\* store is answered 200 or 409; answered 409, its name is not empty, another
\* record holds the name and its own record is not stored; answered 200, its
\* record is stored and, when it has a name, no other record holds the name.
C12_NameTakenAnswer ==
    \A w \in Workers :
        (Answered(w) /\ wk[w].op = "create" /\ wk[w].secret # NoSecret) =>
            /\ wk[w].resp.status \in {StatusOK, StatusConflict}
            /\ (wk[w].resp.status = StatusConflict) =>
                   /\ wk[w].secret.CustomName # <<>>
                   /\ Holders(w) # {}
                   /\ ~HasFile(wk[w].secret.ID)
            /\ (wk[w].resp.status = StatusOK) =>
                   /\ wk[w].secret \in files
                   /\ (wk[w].secret.CustomName # <<>>) => Holders(w) = {}

\* C12, the steps: the create that is refused for its name leaves the stored
\* records as they are, and the create that finds its name held by another
\* record is refused for it.
C12_NameTakenStep ==
    \A w \in Workers :
        /\ NameTaken(w) => files' = files
        /\ (/\ wk[w].op = "create"
            /\ wk[w].pc \in {"store_check", "store_existing"}
            /\ wk'[w].pc \in {"store_write", "done"}
            /\ Holders(w) # {})
           => NameTaken(w)

\* C12: a create whose non-empty custom name is held by a stored record with
\* another id fails with the name-taken error, 409, and leaves the persisted
\* records unchanged; a create with an empty name, or with a name that no
\* record holds, never fails with name-taken.
C12_NameTaken == []C12_NameTakenAnswer /\ [][C12_NameTakenStep]_vars

C12_Witness ==
    \E w \in Workers :
        /\ Answered(w)
        /\ wk[w].op = "create"
        /\ wk[w].resp.status = StatusConflict
        /\ Holders(w) # {}

\* C13: a create is accepted only with a max-view-count that is unset or 1;
\* with any other value it is answered 400 and nothing is persisted.
C13_MaxViewsOneOrUnset ==
    \A w \in Workers :
        (wk[w].asked.reached /\ wk[w].asked.MaxViews \notin {{}, {1}}) =>
            /\ wk[w].pc = "done"
            /\ wk[w].resp.status = StatusBadRequest
            /\ wk[w].secret = NoSecret

\* the names that the claimed validation refuses
BadName(name) ==
    /\ name # <<>>
    /\ \/ ~CustomNameRegexMatch(name)
       \/ Len(name) > MaxCustomNameLength

\* C14: a create whose non-empty custom name has a character that is no
\* letter or digit, or is longer than 32 characters, is answered 400 before
\* the captcha verifier is called and persists nothing.
C14_NameValidated ==
    \A w \in Workers :
        (wk[w].op = "create" /\ BadName(wk[w].reqName)) =>
            /\ wk[w].pc = "done"
            /\ wk[w].resp.status = StatusBadRequest
            /\ wk[w].captcha = "none"
            /\ wk[w].secret = NoSecret
            /\ \A s \in files : s.CustomName # wk[w].reqName

\* the worker's request got no pass from the captcha verifier
CaptchaRefused(w) == wk[w].captcha \in {"fail", "error"}

\* C15, the states: a request whose captcha check failed is answered 400,
\* one whose verifier call returned an error is answered 500, and the
\* handler holds no record, built or fetched.
C15_CaptchaAnswer ==
    \A w \in Workers :
        CaptchaRefused(w) =>
            /\ Answered(w)
            /\ wk[w].resp = ErrorResponse(IF wk[w].captcha = "fail"
                                          THEN StatusBadRequest
                                          ELSE StatusInternalServerError)
            /\ wk[w].secret = NoSecret

\* C15, the steps: the request that is refused by the captcha leaves the
\* stored records and the issued ids as they are.
C15_CaptchaStep ==
    \A w \in Workers :
        (wk[w].pc = "idle" /\ wk'[w].captcha \in {"fail", "error"}) =>
            /\ files' = files
            /\ usedIds' = usedIds

\* C15: in create and in both reads, a captcha check that fails or a verifier
\* that returns an error ends the request with 400 or 500, and the handler
\* does nothing on the store: no record is created, fetched or deleted, and
\* a burn-after-reading secret is not consumed.
C15_CaptchaClosed == []C15_CaptchaAnswer /\ [][C15_CaptchaStep]_vars

C15_Witness ==
    \E w \in Workers, s \in files :
        /\ s.IsBurnAfterReading
        /\ Answered(w)
        /\ wk[w].op = "get"
        /\ wk[w].reqId = s.ID
        /\ wk[w].captcha = "fail"
        /\ wk[w].resp.status = StatusBadRequest

\* C16, the states: a request whose rate-limit call returned an error is
\* passed on to its handler and is not answered 429; the 429 is given only
\* to a request whose call returned no error and refused it.
C16_ErrorAdmits ==
    \A c \in Clients :
        (rl[c].pc = "answered") =>
            /\ rl[c].err => (rl[c].verdict.next /\
                             rl[c].verdict.status # StatusTooManyRequests)
            /\ (rl[c].verdict.status = StatusTooManyRequests) =>
                   (~rl[c].err /\ ~rl[c].allowed /\ ~rl[c].verdict.next)

\* C16, the steps: every redis command that fails makes the call return an
\* error together with allowed = false.
C16_ErrorStep ==
    \A c \in Clients :
        (~rl[c].err /\ rl'[c].err) => (rl'[c].pc = "done" /\ ~rl'[c].allowed)

\* C16: when the rate-limit backend call returns an error the middleware
\* admits the request: the handler runs and the response is not 429; a
\* backend failure never has a request rejected as rate-limited.
C16_FailOpen == []C16_ErrorAdmits /\ [][C16_ErrorStep]_vars

C16_Witness ==
    \E c \in Clients :
        /\ rl[c].pc = "answered"
        /\ rl[c].err
        /\ ~rl[c].allowed
        /\ rl[c].verdict.next

\* C17: status 400 is answered only to invalid input or to a failed captcha
\* check; a failure of the server-side decode or decrypt step is answered
\* 500.  For a read: an answer of 400 means that the id or name was refused
\* before the captcha verifier was called, or that the captcha check failed.
C17_BadRequestOnlyForInput ==
    \A w \in Workers :
        (Answered(w) /\ wk[w].op \in Reads
                     /\ wk[w].resp.status = StatusBadRequest) =>
            wk[w].captcha \in {"none", "fail"}

\* the caller has opened, or failed to open, the last layer
Opening == crypto.pc \in {"opened", "failed"}

\* C18: for every plaintext, the empty one included, and every password,
\* Decrypt of what Encrypt returned, with the same password and by an
\* Encryptor of the same server key, returns exactly the plaintext; the
\* same for two layers, the outer under the empty password, opened in
\* reverse order.
C18_DecryptOfEncrypt ==
    (Opening /\ crypto.right /\ ~crypto.damaged) =>
        /\ crypto.pc = "opened"
        /\ crypto.out.ok
        /\ crypto.out.data = crypto.data

C18_Witness ==
    /\ crypto.pc = "opened"
    /\ crypto.right
    /\ ~crypto.damaged
    /\ crypto.nested
    /\ crypto.data = <<>>
    /\ crypto.password # <<>>
    /\ crypto.out.data = <<>>

\* C19: Decrypt returns an error, and no plaintext, when its password is not
\* the one of the Encrypt, when its Encryptor's server key is not the one of
\* the Encrypt, and when its input is shorter than salt and nonce or is no
\* envelope that Encrypt returned.
C19_DecryptRefuses ==
    (Opening /\ (~crypto.right \/ crypto.damaged)) =>
        /\ crypto.pc = "failed"
        /\ ~crypto.out.ok
        /\ crypto.out.data = <<>>

\* C20, the states: Delete of an id that has no file returns no error and
\* gives the same directory, so Delete after Delete of an id returns what
\* the first returned and gives the directory that the first gave; and no
\* Delete of a handler has returned an error.
C20_DeleteAbsent ==
    /\ \A id \in Ids :
          /\ ~HasFile(id) => (Delete(files, id) = files /\ ~DeleteError(files, id))
          /\ Delete(Delete(files, id), id) = Delete(files, id)
          /\ DeleteError(Delete(files, id), id) = DeleteError(files, id)
    /\ \A w \in Workers : ~wk[w].deleteErr

\* C20, the steps: the handler's Delete of a secret whose file another
\* request has removed leaves the files as they are.
C20_DeleteStep ==
    \A w \in Workers :
        (/\ wk[w].pc \in {"delete_burn", "delete_expired"}
         /\ wk'[w].pc = "done"
         /\ ~HasFile(wk[w].secret.ID))
        => (files' = files /\ ~wk'[w].deleteErr)

\* C20: Delete of an id that has no stored record returns success and leaves
\* the store unchanged: Delete applied twice to an id gives the same result
\* and the same final store as Delete applied once.
C20_DeleteIdempotent == []C20_DeleteAbsent /\ [][C20_DeleteStep]_vars

\* two reads of one burn-after-reading secret have both deleted it
C20_Witness ==
    /\ \A w \in Workers :
          /\ Answered(w)
          /\ wk[w].op \in Reads
          /\ wk[w].resp.status = StatusOK
          /\ wk[w].secret.IsBurnAfterReading
    /\ wk["w1"].secret.ID = wk["w2"].secret.ID
    /\ ~HasFile(wk["w1"].secret.ID)

\* the worker's handler returns from its call of Get or GetByCustomName
Lookup(w) == wk[w].pc = "idle" /\ wk'[w].pc # "idle" /\ wk'[w].op \in Reads

\* C21, the states: Get of an id returns the record that was stored under
\* the id, GetByCustomName of a name a record that was stored with the name,
\* and each returns no record exactly when no stored record matches.
C21_LookupResult ==
    /\ \A id \in IdInputs :
          IF HasFile(id)
          THEN Get(files, id) \in files /\ Get(files, id).ID = id
          ELSE Get(files, id) = NoSecret
    /\ \A name \in NameInputs \ {<<>>} :
          IF \E s \in files : s.CustomName = name
          THEN /\ GetByCustomName(files, name) \in files
               /\ GetByCustomName(files, name).CustomName = name
          ELSE GetByCustomName(files, name) = NoSecret
    /\ \A w \in Workers :
          (wk[w].op \in Reads /\ wk[w].secret # NoSecret) =>
              /\ wk[w].secret.ID \in usedIds
              /\ (wk[w].op = "get") => wk[w].secret.ID = wk[w].reqId
              /\ (wk[w].op = "get_by_name") =>
                     wk[w].secret.CustomName = wk[w].reqName

\* C21, the steps: the lookup of a handler leaves the files as they are,
\* whatever it finds; it hands the handler a stored record, or none and the
\* answer 404 (no error, which would be 500).
C21_LookupStep ==
    \A w \in Workers :
        Lookup(w) =>
            /\ files' = files
            /\ wk'[w].secret # NoSecret => wk'[w].secret \in files
            /\ (wk'[w].captcha = "ok" /\ wk'[w].secret = NoSecret) =>
                   wk'[w].resp.status = StatusNotFound

\* C21: Get and GetByCustomName never change the store, deleting neither an
\* expired nor a burn-after-reading record; they return no record and no
\* error when nothing matches, and a stored record with the id and the
\* custom name it was stored with.
C21_LookupFrame == []C21_LookupResult /\ [][C21_LookupStep]_vars

\* a lookup by name has returned an expired record, which is still stored
C21_Witness ==
    \E w \in Workers :
        /\ wk[w].pc = "check"
        /\ wk[w].op = "get_by_name"
        /\ IsExpired(wk[w].secret, now)
        /\ wk[w].secret \in files

\* a run of CleanExpired ends in this step
RunEnds == sweep.pc = "read" /\ sweep'.pc = "idle"

\* C23, the step that ends a run: GetCleanupStats then reports the number of
\* files that the run removed, whatever the run before reported, and the
\* time of this run's end; a run in which no record of the directory had
\* expired has removed nothing and reports 0.
C23_StatsStep ==
    RunEnds =>
        /\ GetCleanupStats'.SecretsCleaned = sweep.removed
        /\ GetCleanupStats'.LastRun = {now}
        /\ (\A s \in sweep.atStart : ~IsExpired(s, now)) =>
               /\ sweep.removed = 0
               /\ GetCleanupStats'.SecretsCleaned = 0
               /\ \A s \in sweep.atStart : s \in files \/ ~HasFile(s.ID)

\* C23, the states: between the runs the statistics stay as the last run
\* left them: a last run is reported exactly when a run has ended.
C23_StatsKept ==
    /\ GetCleanupStats.SecretsCleaned <= Cardinality(usedIds)
    /\ (GetCleanupStats.LastRun = {}) => GetCleanupStats.SecretsCleaned = 0
    /\ \A t \in GetCleanupStats.LastRun : t <= now

\* C23: after every run of CleanExpired, GetCleanupStats reports as
\* count_deleted the number of records that this run removed, no running
\* total, and a last_run set by this run; on a store with no expired secret
\* the run removes nothing and reports 0.
C23_StatsOfRun == []C23_StatsKept /\ [][C23_StatsStep]_vars

\* a run that removed nothing has reported 0 after a run that reported more
C23_Witness ==
    /\ sweep.pc = "idle"
    /\ GetCleanupStats.SecretsCleaned = 0
    /\ GetCleanupStats.LastRun = {now}
    /\ now > 0
    /\ files = {}
    /\ usedIds # {}

\* C24: after a run of CleanExpired in which k removals of expired records
\* failed, the errors statistic of GetCleanupStats is k.
C24_ErrorsCounted ==
    [][RunEnds => GetCleanupStats'.Errors = sweep.failed]_vars

\* the record that a create hands to the store, from NewSecret to the answer
Creating(w) == wk[w].op = "create" /\ wk[w].secret # NoSecret

\* C25: every record persisted through create is burn-after-reading exactly
\* when it has no expires_at: a burn record has the requested expiry
\* discarded, any other record has an expiry set; no persisted record is both
\* time-limited and burn-limited.
C25_BurnOrExpiry ==
    /\ \A s \in files : s.IsBurnAfterReading <=> s.ExpiresAt = {}
    /\ \A w \in Workers :
         Creating(w) =>
            /\ wk[w].secret.IsBurnAfterReading = wk[w].asked.burn
            /\ wk[w].asked.burn = (wk[w].asked.MaxViews = {1})
            /\ wk[w].secret.IsBurnAfterReading <=> wk[w].secret.ExpiresAt = {}

\* a burn record that was requested with an expiry is on disk without one
C25_Witness ==
    \E w \in Workers :
        /\ Creating(w)
        /\ wk[w].pc = "done"
        /\ wk[w].resp.status = StatusOK
        /\ wk[w].asked.burn
        /\ wk[w].asked.ExpiresAt # {}
        /\ wk[w].secret \in files
        /\ wk[w].secret.ExpiresAt = {}

\* Store has made its check of the custom name and has not yet written
BetweenCheckAndWrite(w) ==
    /\ wk[w].op = "create"
    /\ wk[w].secret.CustomName # <<>>
    /\ wk[w].pc \in {"store_existing", "store_write"}

\* C26: in create, the check of the custom name and the write of the record
\* are one critical section: between the check of a create and its write no
\* other create, delete or sweep changes the files.
C26_CheckAndWriteAtomic ==
    [][\A w \in Workers :
          (BetweenCheckAndWrite(w) /\ files' # files) => wk'[w] # wk[w]]_vars

\* a step in which worker w runs the critical section of Get or
\* GetByCustomName (a lookup that found a record), of Store's write or of
\* Delete
StoreCall(w) ==
    /\ wk'[w] # wk[w]
    /\ \/ wk[w].pc = "idle" /\ wk'[w].op \in Reads /\ wk'[w].pc = "check"
       \/ wk[w].pc \in {"store_existing", "store_write",
                        "delete_expired", "delete_burn"}

\* C27: the sweep holds the exclusive lock of the store from the start of its
\* scan to its last removal: while CleanExpired is scanning or deleting, no
\* Get, GetByCustomName, Store or Delete runs its critical section.
C27_SweepExclusive ==
    [][sweep.pc # "idle" => \A w \in Workers : ~StoreCall(w)]_vars

\* worker w reads a burn-after-reading record and has its content in hand
ServesBurn(w) ==
    /\ wk[w].op \in Reads
    /\ wk[w].pc \in {"delete_burn", "done"}
    /\ wk[w].secret.IsBurnAfterReading
    /\ wk[w].resp.status = StatusOK

\* C28, the states: every read that serves a burn-after-reading record
\* serves the content that was sent, however many reads serve it, and the
\* file is gone once such a read is answered.
C28_BurnServed ==
    \A w \in Workers :
        ServesBurn(w) =>
            /\ wk[w].resp.content = sent[wk[w].secret.ID]
            /\ Answered(w) => ~HasFile(wk[w].secret.ID)

\* C28, the steps: a read fetches a record only while its file is there, and
\* only the Delete of a read, a call of its own after the lookup, removes
\* the file of a burn-after-reading record.
C28_BurnStep ==
    /\ \A w \in Workers :
          (Lookup(w) /\ wk'[w].secret # NoSecret) => wk'[w].secret \in files
    /\ \A s \in files :
          (s.IsBurnAfterReading /\ s \notin files') =>
              \E w \in Workers : wk[w].pc = "delete_burn" /\ wk'[w].pc = "done"
                                 /\ wk[w].secret = s

\* C28: two concurrent reads of one burn-after-reading secret can both return
\* its content: the lookup and the Delete are separate calls of the store, so
\* both reads can fetch the record before either Delete takes effect.
C28_BurnReadTwice == []C28_BurnServed /\ [][C28_BurnStep]_vars

\* both reads hold the content of one burn-after-reading record, fetched
\* before either Delete: the file is still there
C28_Witness ==
    /\ \A w \in Workers : ServesBurn(w) /\ wk[w].pc = "delete_burn"
    /\ wk["w1"].secret = wk["w2"].secret
    /\ wk["w1"].secret \in files
    /\ wk["w1"].resp.content = sent[wk["w1"].secret.ID]
    /\ wk["w2"].resp.content = sent[wk["w2"].secret.ID]

\* no call of CheckRateLimit stands between the commands of its pipeline
NoPipelineOpen ==
    \A c \in Clients :
        rl[c].pc \notin {"incr_hour", "expire_hour", "incr_minute", "expire_minute"}

\* C29: every rate-limit counter that exists has an expiry set, in every
\* interleaving of the calls and the expirations of the counters, so that a
\* key at its limit is admitted again without a cleanup pass.
C29_CountersExpire ==
    NoPipelineOpen => \A key \in Keys : redis[key].count > 0 => redis[key].ttl

\* the counter of the pair of client c's call after the step, for a window
CounterOf(c, window) == redis[RateLimitKey(rl'[c].ip, rl'[c].route, window)]

\* the step ends client c's call with false and no error
Rejects(c) ==
    /\ rl'[c].pc = "done"
    /\ rl[c].pc \in {"idle", "done", "answered", "get_minute"}
    /\ ~rl'[c].allowed
    /\ ~rl'[c].err

\* C30, the steps: a step of a call that reads a count at its limit ends the
\* call with false, and a step that ends a call with false leaves every
\* counter and every expiry as it was; a rejected call has sent no command
\* of the pipeline.
C30_RejectStep ==
    \A c \in Clients :
        /\ (/\ rl'[c] # rl[c]
            /\ rl[c].pc \in {"idle", "done", "answered"}
            /\ AtLimit(CounterOf(c, "hour").count, limits.requestsPerHour))
           => Rejects(c)
        /\ (/\ rl'[c] # rl[c]
            /\ rl[c].pc = "get_minute"
            /\ AtLimit(CounterOf(c, "minute").count, limits.requestsPerMinute))
           => Rejects(c)
        /\ (rl'[c] # rl[c] /\ rl'[c].pc = "done" /\ ~rl'[c].allowed)
           => (Rejects(c) /\ redis' = redis /\ hits' = hits)

\* C30, the states: a call has ended with false and no error only when a
\* count that it read had reached its limit.
C30_RejectState ==
    \A c \in Clients :
        (rl[c].pc = "done" /\ ~rl[c].allowed /\ ~rl[c].err) =>
            \/ AtLimit(rl[c].hourCount, limits.requestsPerHour)
            \/ AtLimit(rl[c].minuteCount, limits.requestsPerMinute)

\* C30: a call of CheckRateLimit that rejects leaves both counters and their
\* expiries unchanged; a request rejected on the minute limit does not
\* increment the hour counter.
C30_RejectChangesNothing == []C30_RejectState /\ [][C30_RejectStep]_vars

\* a call rejected on the minute while the hour counter, below its limit,
\* stands at the count that the call read
C30_Witness ==
    \E c \in Clients :
        /\ rl[c].pc = "done"
        /\ ~rl[c].allowed
        /\ AtLimit(rl[c].minuteCount, limits.requestsPerMinute)
        /\ rl[c].hourCount > 0
        /\ ~AtLimit(rl[c].hourCount, limits.requestsPerHour)
        /\ redis[RateLimitKey(rl[c].ip, rl[c].route, "hour")].count = rl[c].hourCount

\* the final sweep has started
FinalSweepStarted == life.cleaner \in {"final", "final_done", "returned"}

\* the final sweep has finished
FinalSweepFinished == life.cleaner \in {"final_done", "returned"}

\* C22: on a shutdown signal the server first stops accepting requests, then
\* the cleanup timer is cancelled, then one final sweep runs, and only then
\* the Redis connection is released: the final sweep does not start while
\* the server accepts requests or before the timer is cancelled, and the
\* Redis connection is not closed before the final sweep has finished.
C22_ShutdownOrder ==
    /\ FinalSweepStarted => (~life.accepting /\ life.tickerStopped)
    /\ ~life.redisOpen => FinalSweepFinished

\* the record was in the directory that the run listed, expired already
ExpiredAtStart(s) ==
    s \in sweep.atStart /\ \E e \in s.ExpiresAt : e < sweep.startedAt

\* C31, the states: a run that is under way has visited every file below
\* the ones it has still to visit, whatever failed on the way: no record
\* that was expired at its start is left among the files it has passed.
C31_PassedFilesClean ==
    sweep.pc # "idle" =>
        \A s \in files :
            ExpiredAtStart(s) =>
                \/ s.ID \in sweep.list
                \/ sweep.pc = "remove" /\ sweep.secret = s

\* C31, the step that ends a run: CleanExpired returns after its statistics
\* with every file visited, and no record that was expired at its start is
\* left, also when a read or a removal failed on another record.
C31_RunEndsClean ==
    RunEnds => /\ sweep.list = {}
               /\ \A s \in files' : ~ExpiredAtStart(s)

C32_FinalSweepStates ==
    /\ (life.cleaner \in {"tick", "final"}) <=> (sweep.pc # "idle")
    /\ FinalSweepStarted => life.ctxDone
    /\ life.main = "exited" => (life.cleaner = "returned" /\ sweep.pc = "idle")

\* C32, the steps: once the goroutine has taken the case of ctx.Done(), no
\* sweep starts, so the final sweep is the only one and no periodic sweep
\* follows it; and a sweep that is under way ends only at the end of its
\* list, whatever main and the signal do meanwhile.
C32_FinalSweepSteps ==
    /\ FinalSweepStarted =>
          (FinalSweepStarted' /\ ~(sweep.pc = "idle" /\ sweep'.pc # "idle"))
    /\ FinalSweepFinished => (FinalSweepFinished' /\ sweep' = sweep)
    /\ (sweep.pc # "idle" /\ sweep'.pc = "idle") =>
          (sweep.pc = "read" /\ sweep.list = {})
    /\ (sweep.pc # "idle" /\ life' # life) =>
          (sweep' = sweep \/ RunEnds)

\* C32: once the cleanup routine observes the shutdown signal, exactly one
\* final sweep runs and no periodic sweep starts afterwards; a sweep in
\* flight is never cancelled; and main does not report the shutdown complete
\* until the routine has finished its final sweep.
C32_OneFinalSweep == []C32_FinalSweepStates /\ [][C32_FinalSweepSteps]_vars

\* main has exited after a final sweep that removed a record
C32_Witness ==
    /\ life.main = "exited"
    /\ life.cleaner = "returned"
    /\ cleanupStats.lastRun = {now}
    /\ cleanupStats.secretsCleaned > 0

\* worker w is inside FileStore.Store with a record that it has not written
Storing(w) == wk[w].pc \in {"store_check", "store_existing", "store_write"}

\* C33, the states: every file holds the record of an id that was handed
\* out, one file per id; a record on its way into the store has an id that
\* has no file, and no two requests hold the same id on its way.
C33_OneRecordPerId ==
    /\ \A s \in files, t \in files : s.ID = t.ID => s = t
    /\ \A s \in files : s.ID \in usedIds
    /\ \A w \in Workers :
          Storing(w) =>
             /\ wk[w].secret.ID \in usedIds
             /\ ~HasFile(wk[w].secret.ID)
             /\ \A v \in Workers \ {w} :
                   Storing(v) => wk[v].secret.ID # wk[w].secret.ID

\* C33, the steps: a record that stays in the store keeps every field; a
\* file appears only by the one write of the create that was given its id,
\* which is then behind that create; a create is given an id that no
\* earlier create was given; so an id that has left the store does not come
\* back.
C33_WriteOnceStep ==
    /\ \A s \in files : HasFile(s.ID)' => s \in files'
    /\ \A s \in files' :
          s \notin files =>
             \E w \in Workers :
                /\ wk[w].pc = "store_write" /\ wk[w].secret = s
                /\ wk'[w].pc = "done"
                /\ ~HasFile(s.ID)
    /\ usedIds \subseteq usedIds'
    /\ \A w \in Workers :
          (wk[w].pc = "idle" /\ Storing(w)') =>
             (wk'[w].secret.ID \notin usedIds /\ wk'[w].secret.ID \in usedIds')

\* C33: secrets are write-once: over any sequence of create, read by id,
\* read by name, delete and sweep, the fields of a persisted record never
\* change, each id goes only from absent to present to absent, and a deleted
\* id never becomes present again.
C33_WriteOnce == []C33_OneRecordPerId /\ [][C33_WriteOnceStep]_vars

\* the first secret was removed by the sweep and the second is stored, with
\* every id handed out
C33_Witness ==
    /\ usedIds = Ids
    /\ cleanupStats.secretsCleaned > 0
    /\ files # {}
    /\ \E id \in Ids : ~HasFile(id)
    /\ \A w \in Workers : ~Storing(w)

\* the present time, the end of the clock and a time past every allowed
\* expiry
LaterTimes == {now, MaxTime, 8 * 24 * Hour}

\* C34, the states: a stored record without expires_at is not expired, now
\* or at any later time, and the sweep does not hold one for removal.
C34_NeverExpired ==
    /\ \A s \in files, t \in LaterTimes :
          s.ExpiresAt = {} => (s.IsBurnAfterReading /\ ~IsExpired(s, t))
    /\ sweep.pc = "remove" => sweep.secret.ExpiresAt # {}

\* C34, the steps: the file of a burn-after-reading record goes away only
\* by the Delete of a read that has its content in hand; the sweep and the
\* clock leave it where it is.
C34_BurnStaysStep ==
    \A s \in files :
        (s.ExpiresAt = {} /\ s \notin files') =>
            /\ sweep' = sweep
            /\ \E w \in Workers :
                  /\ ServesBurn(w) /\ wk[w].secret = s
                  /\ wk[w].pc = "delete_burn" /\ wk'[w].pc = "done"

\* C34: a burn-after-reading secret (expires_at null) is never reported
\* expired and never deleted by the sweep: if it is never read with success,
\* it stays in the store through any number of sweeps and any time.
C34_BurnOutlivesSweeps == []C34_NeverExpired /\ [][C34_BurnStaysStep]_vars

\* a burn-after-reading record is in the store at the end of the clock, just
\* after a sweep that removed an expired record listed with it
C34_Witness ==
    /\ now = MaxTime
    /\ sweep.pc = "read"
    /\ sweep.list = {}
    /\ sweep.removed > 0
    /\ \E s \in files : s.IsBurnAfterReading /\ s \in sweep.atStart

\* C35, the states: a read stands before its Delete of a burn-after-reading
\* record only with the answer 200 prepared.
C35_DeleteAfterSuccess ==
    \A w \in Workers :
        wk[w].pc = "delete_burn" =>
            /\ wk[w].resp.status = StatusOK
            /\ wk[w].secret.IsBurnAfterReading

\* C35, the steps: a read of a burn-after-reading record whose payload
\* cannot be prepared ends with 400 and leaves the files as they are; and
\* the file of a burn-after-reading record is removed only by a read that
\* has prepared its answer 200.
C35_FailedReadStep ==
    /\ \A w \in Workers :
          (/\ wk[w].pc = "check"
           /\ wk[w].secret.IsBurnAfterReading
           /\ wk'[w].pc # "check"
           /\ wk'[w].resp.status # StatusOK)
          => /\ wk'[w].pc = "done"
             /\ wk'[w].resp.status = StatusBadRequest
             /\ files' = files
    /\ \A s \in files :
          (s.IsBurnAfterReading /\ s \notin files') =>
             \E w \in Workers :
                /\ wk[w].pc = "delete_burn" /\ wk[w].secret = s
                /\ wk[w].resp.status = StatusOK
                /\ wk'[w].resp = wk[w].resp

\* C35: a read of a burn-after-reading secret that fails before it has a
\* response (decode, server-side decryption or the split in three parts
\* fails) does not delete the record; the record is deleted only after a
\* successful retrieval.
C35_FailedReadKeeps == []C35_DeleteAfterSuccess /\ [][C35_FailedReadStep]_vars

\* a read of a stored burn-after-reading record has been answered 400 and
\* the record is still there
C35_Witness ==
    \E w \in Workers :
        /\ Answered(w)
        /\ wk[w].op \in Reads
        /\ wk[w].resp.status = StatusBadRequest
        /\ wk[w].secret.IsBurnAfterReading
        /\ wk[w].secret \in files

\* C36: a read answers 200 with the content of a burn-after-reading secret
\* only if its Delete of the record succeeded: when Delete fails the content
\* is not returned, so a burn-after-reading secret whose content was
\* returned is not in the store any more.
C36_ContentOnlyIfDeleted ==
    \A w \in Workers :
        (/\ Answered(w)
         /\ wk[w].op \in Reads
         /\ wk[w].secret.IsBurnAfterReading
         /\ wk[w].resp.status = StatusOK)
        => (~wk[w].deleteErr /\ ~HasFile(wk[w].secret.ID))

\* C37: a create with a custom name, whatever deletes or sweeps of the
\* record that holds the name run beside it, ends in success or in the
\* name-taken error: it never uses a record that is gone and never ends in
\* a crash or an internal failure.
C37_CreateEndsCleanly ==
    \A w \in Workers :
        (Answered(w) /\ Creating(w) /\ wk[w].secret.CustomName # <<>>) =>
            wk[w].resp.status \in {StatusOK, StatusConflict}

\* C38, the states: no goroutine is inside RLock or Lock of the store while
\* it holds the store's lock, and a writer holds the lock alone.
C38_NoLockTwice ==
    /\ \A t \in Threads : Waiting(t) => ~Holds(t)
    /\ \A t \in Threads : t \in mu.readers => mu.wHolder # {t}
    /\ mu.writing => mu.readers = {}

\* C38, the end of every call: a goroutine that has entered a method of the
\* store returns from it.
C38_Returns ==
    \A t \in Threads : (mu.th[t].op # "none") ~> (mu.th[t].op = "none")

\* C38: no operation of the store blocks forever: Store, Get,
\* GetByCustomName, Delete, CleanExpired, IsCustomNameTaken and
\* GetCleanupStats never acquire the lock of the store while they hold it,
\* and under fair scheduling every operation that was invoked returns, for
\* any mix of concurrent requests and sweeps.
C38_NoOperationBlocks == []C38_NoLockTwice /\ C38_Returns

\* CleanExpired writes its statistics under the lock while a Store waits
\* for the write lock and a reader is held back
C38_Witness ==
    /\ mu.writing
    /\ mu.wHolder = {"cleanup"}
    /\ mu.th["cleanup"].op = "CleanExpired"
    /\ \E t \in mu.wantW : mu.th[t].op = "Store"
    /\ mu.wantR # {}

\* C39: when enable_captcha is false, neither create nor the two reads call
\* the captcha verifier, and the outcome of a request does not depend on
\* what the verifier would answer: no request has an answer of the verifier,
\* and none is refused with the verifier's 400 or 500.
C39_NoVerifierWhenOff ==
    ~cfg.EnableCaptcha =>
        \A w \in Workers :
            /\ wk[w].captcha = "none"
            /\ ~(CaptchaRefused(w) /\ wk[w].pc = "done"
                 /\ wk[w].resp.status \in {StatusBadRequest,
                                           StatusInternalServerError})

\* a read handler has called the store for the request of worker w: it
\* answered with what the lookup gave, or holds the record it found
LookedUp(w) ==
    /\ wk[w].op \in Reads
    /\ \/ wk[w].secret # NoSecret
       \/ wk[w].pc = "done" /\ wk[w].resp.status = StatusNotFound

\* C40: a read by id whose id does not match the uuid pattern, or a read by
\* name whose name is not purely alphanumeric, is answered 400 before the
\* captcha is verified and before any call of the store; the handlers call
\* the store's Get only with ids that match the pattern.
C40_BadFormatRejectedFirst ==
    \A w \in Workers :
        /\ (wk[w].op = "get" /\ ~UuidPatternMatch(wk[w].reqId)) =>
              /\ wk[w].pc = "done"
              /\ wk[w].resp = ErrorResponse(StatusBadRequest)
              /\ wk[w].captcha = "none"
              /\ ~LookedUp(w)
        /\ (wk[w].op = "get_by_name" /\ ~CustomNameRegexMatch(wk[w].reqName)) =>
              /\ wk[w].pc = "done"
              /\ wk[w].resp = ErrorResponse(StatusBadRequest)
              /\ wk[w].captcha = "none"
              /\ ~LookedUp(w)

=============================================================================
